---- MODULE Spec2Model ----
(***************************************************************************)
(* Model of the source-analysis engine of i18n-status.nvim                 *)
(* (rust/src/scan.rs).  A source file is a syntax tree; strings are        *)
(* sequences of one-character strings, so that ':' can be searched for     *)
(* and keys can be concatenated; Option<T> is a sequence of length 0 or 1. *)
(* Columns are not modelled: every node carries the 0-indexed line of the  *)
(* start of its span.                                                      *)
(***************************************************************************)
EXTENDS Integers, Sequences, FiniteSets, TLC

VARIABLES
    family,   \* the family of statements the edited source is written with
    module,   \* the syntax tree of the source: a sequence of statements
    open,     \* TRUE while the last top-level function body is not closed
    cur,      \* line of the last token written
    request,  \* Option: the parameters of the extract request that was served
    tables,   \* Option: the ConstantTable and the NamespaceScopes it was served with
    response, \* Option: the response to it
    token,    \* TRUE when the cancel token file of a diagnose run exists
    run       \* Option: the locals of the diagnose run in progress

vars == <<family, module, open, cur, request, tables, response, token, run>>

(* ------------------------------ bounds --------------------------------- *)
MaxStmts == 4   \* statements of a source, function declarations included
MaxLine == 4    \* last line of a source

(* ----------------------------- Option<T> ------------------------------- *)
None == <<>>
Some(v) == <<v>>
IsSome(o) == o # <<>>
Unwrap(o) == o[1]

(* The end line of the module-level scope context, u32::MAX in the source. *)
(* TLC's integers are 32-bit signed, so the largest of them stands for it: *)
(* what matters is that it is above every line of a source.                *)
U32Max == 2147483647

(* ------------------------------ syntax --------------------------------- *)
StrLit(v, l) == [kind |-> "Str", value |-> v, line |-> l]
NumLit(l) == [kind |-> "Num", line |-> l]
Ident(s, l) == [kind |-> "Ident", sym |-> s, line |-> l]
Tpl(qs, es, l) == [kind |-> "Tpl", quasis |-> qs, exprs |-> es, line |-> l]
Bin(o, a, b) == [kind |-> "Bin", op |-> o, left |-> a, right |-> b, line |-> a.line]
Paren(e, l) == [kind |-> "Paren", expr |-> e, line |-> l]
TsAs(e) == [kind |-> "TsAs", expr |-> e, line |-> e.line]
TsSatisfies(e) == [kind |-> "TsSatisfies", expr |-> e, line |-> e.line]
TsNonNull(e) == [kind |-> "TsNonNull", expr |-> e, line |-> e.line]
Await(e, l) == [kind |-> "Await", arg |-> e, line |-> l]
\* obj.prop (computed = FALSE) or obj["prop"] (computed = TRUE)
Member(o, p, c) == [kind |-> "Member", obj |-> o, prop |-> p, computed |-> c, line |-> o.line]
\* block = TRUE: body is the statement list of a block spanning lines s..e;
\* block = FALSE: body is an expression and s..e is the span of the arrow
Arrow(blk, b, s, e) ==
    [kind |-> "Arrow", block |-> blk, body |-> b, start |-> s, end |-> e, line |-> s]
Call(c, as) == [kind |-> "Call", callee |-> c, args |-> as, line |-> c.line]

PatIdent(s) == [kind |-> "Ident", sym |-> s]
PropAssign(k) == [kind |-> "Assign", key |-> k]
PropKeyValue(k, p) == [kind |-> "KeyValue", key |-> k, value |-> p]
PropRest == [kind |-> "Rest"]
PatObject(ps) == [kind |-> "Object", props |-> ps]
PatArray(es) == [kind |-> "Array", elems |-> es]

Declarator(p, i) == [name |-> p, init |-> i]
VarDecl(k, ds) == [kind |-> "Var", declKind |-> k, decls |-> ds]
ExprStmt(e) == [kind |-> "Expr", expr |-> e]
ReturnStmt(a) == [kind |-> "Return", arg |-> a]
FnDecl(b, s, e) == [kind |-> "Fn", body |-> b, start |-> s, end |-> e]

\* <name attrs...>children</name>; name is the sequence of identifiers of
\* a (member) name, attrs the expressions of the attributes with an
\* expression container as value
JSXElement(n, as, cs, l, c, done) ==
    [kind |-> "JSXElement", name |-> n, attrs |-> as, children |-> cs,
     line |-> l, col |-> c, closed |-> done]
JSXFragment(cs, l, c) == [kind |-> "JSXFragment", children |-> cs, line |-> l, col |-> c]
JSXText(v, l, c, el, ec) ==
    [kind |-> "JSXText", value |-> v, line |-> l, col |-> c, end_line |-> el, end_col |-> ec]
\* {expr}, on one line
JSXExprContainer(e, l, c) ==
    [kind |-> "JSXExprContainer", expr |-> e, line |-> l, col |-> c, end_line |-> l]

Concat(a, b) == a \o b

RECURSIVE ConcatAll(_)
ConcatAll(ss) == IF ss = <<>> THEN <<>> ELSE Concat(Head(ss), ConcatAll(Tail(ss)))

(* ------------------------- constant propagation ------------------------ *)
EmptyConsts == [n \in {} |-> <<>>]
\* the first declaration of a name kept, later ones dropped
InsertIfAbsent(consts, k, v) ==
    [n \in DOMAIN consts \cup {k} |-> IF n \in DOMAIN consts THEN consts[n] ELSE v]

Insert(consts, k, v) == [n \in DOMAIN consts \cup {k} |-> IF n = k THEN v ELSE consts[n]]

\* eval_string_expr: string literal, template without expressions, binary +,
\* const reference, parenthesised expression; everything else is None
RECURSIVE eval_string_expr(_, _)
eval_string_expr(expr, consts) ==
    CASE expr.kind = "Str" -> Some(expr.value)
      [] expr.kind = "Tpl" ->
            IF expr.exprs # <<>> THEN None ELSE Some(ConcatAll(expr.quasis))
      [] expr.kind = "Bin" ->
            IF expr.op = "+"
            THEN LET left == eval_string_expr(expr.left, consts)
                     right == eval_string_expr(expr.right, consts)
                 IN IF IsSome(left) /\ IsSome(right)
                    THEN Some(Concat(Unwrap(left), Unwrap(right)))
                    ELSE None
            ELSE None
      [] expr.kind = "Ident" ->
            IF expr.sym \in DOMAIN consts THEN Some(consts[expr.sym]) ELSE None
      [] expr.kind = "Paren" -> eval_string_expr(expr.expr, consts)
      [] OTHER -> None

\* the first loop of ConstCollector::collect_var_decl: every single-name
\* declarator of a const declaration whose initializer evaluates is inserted
RECURSIVE InsertDecls(_, _)
InsertDecls(decls, consts) ==
    IF decls = <<>> THEN consts
    ELSE LET d == Head(decls)
             val == IF d.name.kind = "Ident" /\ IsSome(d.init)
                    THEN eval_string_expr(Unwrap(d.init), consts)
                    ELSE None
         IN InsertDecls(Tail(decls),
                        IF IsSome(val) THEN Insert(consts, d.name.sym, Unwrap(val))
                        ELSE consts)

RECURSIVE ConstVisitExpr(_, _)
RECURSIVE ConstVisitExprs(_, _)
RECURSIVE ConstVisitStmt(_, _)
RECURSIVE ConstVisitStmts(_, _)
RECURSIVE ConstVisitInits(_, _)

ConstVisitExprs(es, consts) ==
    IF es = <<>> THEN consts
    ELSE ConstVisitExprs(Tail(es), ConstVisitExpr(Head(es), consts))

\* ConstCollector::visit_expr
ConstVisitExpr(expr, consts) ==
    CASE expr.kind = "Call" ->
            ConstVisitExpr(expr.callee, ConstVisitExprs(expr.args, consts))
      [] expr.kind = "Arrow" ->
            IF expr.block THEN ConstVisitStmts(expr.body, consts)
            ELSE ConstVisitExpr(expr.body, consts)
      [] expr.kind = "Paren" -> ConstVisitExpr(expr.expr, consts)
      [] expr.kind = "Bin" ->
            ConstVisitExpr(expr.right, ConstVisitExpr(expr.left, consts))
      [] expr.kind = "Tpl" -> ConstVisitExprs(expr.exprs, consts)
      [] expr.kind = "Member" -> ConstVisitExpr(expr.obj, consts)
      [] expr.kind = "Await" -> ConstVisitExpr(expr.arg, consts)
      [] expr.kind \in {"TsAs", "TsSatisfies", "TsNonNull"} ->
            ConstVisitExpr(expr.expr, consts)
      [] OTHER -> consts

\* the second loop of collect_var_decl: the initializers are visited
ConstVisitInits(decls, consts) ==
    IF decls = <<>> THEN consts
    ELSE ConstVisitInits(Tail(decls),
                         IF IsSome(Head(decls).init)
                         THEN ConstVisitExpr(Unwrap(Head(decls).init), consts)
                         ELSE consts)

\* the kind of the declaration ignored: let and var propagated like const
collect_var_decl_any_kind(var, consts) ==
    ConstVisitInits(var.decls, InsertDecls(var.decls, consts))

\* ConstCollector::collect_var_decl
collect_var_decl(var, consts) ==
    ConstVisitInits(var.decls,
                    IF var.declKind = "const" THEN InsertDecls(var.decls, consts)
                    ELSE consts)

\* ConstCollector::visit_stmt and visit_decl
ConstVisitStmt(stmt, consts) ==
    CASE stmt.kind = "Var" -> collect_var_decl(stmt, consts)
      [] stmt.kind = "Fn" -> ConstVisitStmts(stmt.body, consts)
      [] stmt.kind = "Expr" -> ConstVisitExpr(stmt.expr, consts)
      [] stmt.kind = "Return" ->
            IF IsSome(stmt.arg) THEN ConstVisitExpr(Unwrap(stmt.arg), consts)
            ELSE consts
      [] OTHER -> consts

ConstVisitStmts(stmts, consts) ==
    IF stmts = <<>> THEN consts
    ELSE ConstVisitStmts(Tail(stmts), ConstVisitStmt(Head(stmts), consts))

\* collect_consts: one traversal of the module body, one flat table
collect_consts(m) == ConstVisitStmts(m, EmptyConsts)

(* --------------------------- scope collector --------------------------- *)
HookNames == {"useTranslation", "useTranslations", "getTranslations"}

is_translation_hook(name) == name \in HookNames

\* get_callee_name: only a bare identifier callee has a name
get_callee_name(callee) == IF callee.kind = "Ident" THEN Some(callee.sym) ELSE None

get_first_string_arg(args, consts) ==
    IF args = <<>> THEN None ELSE eval_string_expr(Head(args), consts)

\* extract_hook_call: the call under await / paren / TS wrappers, if any
RECURSIVE extract_hook_call(_)
extract_hook_call(expr) ==
    CASE expr.kind = "Call" -> Some(expr)
      [] expr.kind = "Await" -> extract_hook_call(expr.arg)
      [] expr.kind \in {"Paren", "TsAs", "TsSatisfies", "TsNonNull"} ->
            extract_hook_call(expr.expr)
      [] OTHER -> None

\* the first loop over the properties of an object pattern
RECURSIVE FirstTProp(_)
FirstTProp(props) ==
    IF props = <<>> THEN None
    ELSE LET p == Head(props) IN
         IF p.kind = "Assign" /\ p.key = "t" THEN Some("t")
         ELSE IF p.kind = "KeyValue" /\ p.key = "t" /\ p.value.kind = "Ident"
              THEN Some(p.value.sym)
              ELSE FirstTProp(Tail(props))

\* detect_t_func_name: the name the translation function is bound to
detect_t_func_name(name) ==
    CASE name.kind = "Ident" -> Some(name.sym)
      [] name.kind = "Object" -> FirstTProp(name.props)
      [] name.kind = "Array" ->
            IF name.elems # <<>> /\ IsSome(Head(name.elems))
               /\ Unwrap(Head(name.elems)).kind = "Ident"
            THEN Some(Unwrap(Head(name.elems)).sym)
            ELSE None
      [] OTHER -> None

NamespaceScope(n, t, s, e) == [ns |-> n, t_func |-> t, start_line |-> s, end_line |-> e]

\* TRUE when expr is (a wrapper around) a call of a hook name
IsHookCall(expr) ==
    LET call == extract_hook_call(expr) IN
    /\ IsSome(call)
    /\ IsSome(get_callee_name(Unwrap(call).callee))
    /\ is_translation_hook(Unwrap(get_callee_name(Unwrap(call).callee)))

HookNs(expr, consts) == get_first_string_arg(Unwrap(extract_hook_call(expr)).args, consts)

RECURSIVE ScopeVisitExpr(_, _, _, _)
RECURSIVE ScopeVisitExprs(_, _, _, _)
RECURSIVE ScopeVisitStmt(_, _, _, _)
RECURSIVE ScopeVisitStmts(_, _, _, _)
RECURSIVE ScopeVisitDecls(_, _, _, _)

ScopeVisitExprs(es, consts, s, e) ==
    IF es = <<>> THEN <<>>
    ELSE ScopeVisitExpr(Head(es), consts, s, e) \o ScopeVisitExprs(Tail(es), consts, s, e)

\* ScopeCollector::visit_expr: a function body narrows the context to its lines
ScopeVisitExpr(expr, consts, s, e) ==
    CASE expr.kind = "Arrow" ->
            IF expr.block THEN ScopeVisitStmts(expr.body, consts, expr.start, expr.end)
            ELSE ScopeVisitExpr(expr.body, consts, expr.start, expr.end)
      [] expr.kind = "Call" -> ScopeVisitExprs(expr.args, consts, s, e)
      [] expr.kind = "Paren" -> ScopeVisitExpr(expr.expr, consts, s, e)
      [] OTHER -> <<>>

\* ScopeCollector::visit_decl, Decl::Var: one scope per hook declarator
ScopeVisitDecls(decls, consts, s, e) ==
    IF decls = <<>> THEN <<>>
    ELSE LET d == Head(decls) IN
         (IF IsSome(d.init)
          THEN (IF IsHookCall(Unwrap(d.init))
                THEN <<NamespaceScope(HookNs(Unwrap(d.init), consts),
                                      detect_t_func_name(d.name), s, e)>>
                ELSE <<>>)
               \o ScopeVisitExpr(Unwrap(d.init), consts, s, e)
          ELSE <<>>)
         \o ScopeVisitDecls(Tail(decls), consts, s, e)

\* ScopeCollector::visit_stmt and visit_decl
ScopeVisitStmt(stmt, consts, s, e) ==
    CASE stmt.kind = "Var" -> ScopeVisitDecls(stmt.decls, consts, s, e)
      [] stmt.kind = "Fn" -> ScopeVisitStmts(stmt.body, consts, stmt.start, stmt.end)
      [] stmt.kind = "Expr" ->
            (IF IsHookCall(stmt.expr)
             THEN <<NamespaceScope(HookNs(stmt.expr, consts), Some("t"), s, e)>>
             ELSE <<>>)
            \o ScopeVisitExpr(stmt.expr, consts, s, e)
      [] stmt.kind = "Return" ->
            IF IsSome(stmt.arg) THEN ScopeVisitExpr(Unwrap(stmt.arg), consts, s, e)
            ELSE <<>>
      [] OTHER -> <<>>

ScopeVisitStmts(stmts, consts, s, e) ==
    IF stmts = <<>> THEN <<>>
    ELSE ScopeVisitStmt(Head(stmts), consts, s, e)
         \o ScopeVisitStmts(Tail(stmts), consts, s, e)

Size(scope) == scope.end_line - scope.start_line

\* stable insertion of x into a list sorted by Size
RECURSIVE InsertBySize(_, _)
InsertBySize(x, sorted) ==
    IF sorted = <<>> THEN <<x>>
    ELSE IF Size(Head(sorted)) <= Size(x)
         THEN <<Head(sorted)>> \o InsertBySize(x, Tail(sorted))
         ELSE <<x>> \o sorted

\* sort_by_key(|s| s.end_line - s.start_line): stable, smallest first
RECURSIVE SortBySize(_)
SortBySize(scopes) ==
    IF scopes = <<>> THEN <<>>
    ELSE InsertBySize(scopes[Len(scopes)], SortBySize(SubSeq(scopes, 1, Len(scopes) - 1)))

\* the scopes left in collection order, the sort forgotten
collect_scopes_unsorted(m, consts) == ScopeVisitStmts(m, consts, 0, U32Max)

\* collect_scopes_precise
collect_scopes_precise(m, consts) == SortBySize(ScopeVisitStmts(m, consts, 0, U32Max))

(* ---------------------------- call extractor --------------------------- *)
Range(s, e) == [start_line |-> s, end_line |-> e]

ScanItem(k, r, n, l, f) == [key |-> k, raw |-> r, namespace |-> n, lnum |-> l, fallback |-> f]

Contains(scope, lnum) == lnum >= scope.start_line /\ lnum <= scope.end_line

\* value.find(':'): index of the first ':' (0 when there is none)
RECURSIVE FindColon(_, _)
FindColon(value, i) ==
    IF i > Len(value) THEN 0
    ELSE IF value[i] = ":" THEN i ELSE FindColon(value, i + 1)

\* the first scope that contains lnum decides, with or without a namespace
RECURSIVE FirstContainingScope(_, _)
FirstContainingScope(scopes, lnum) ==
    IF scopes = <<>> THEN None
    ELSE IF Contains(Head(scopes), lnum)
         THEN (IF IsSome(Head(scopes).ns) THEN Some(Head(scopes)) ELSE None)
         ELSE FirstContainingScope(Tail(scopes), lnum)

\* the first scope, in list order, that contains lnum and has a namespace
RECURSIVE FirstNsScope(_, _)
FirstNsScope(scopes, lnum) ==
    IF scopes = <<>> THEN None
    ELSE IF Contains(Head(scopes), lnum) /\ IsSome(Head(scopes).ns)
         THEN Some(Head(scopes))
         ELSE FirstNsScope(Tail(scopes), lnum)

\* the enclosing scope consulted before the text is searched for ':'
resolve_namespace_scope_first(value, lnum, scopes, fallback_namespace) ==
    LET colon_pos == FindColon(value, 1)
        scope == FirstNsScope(scopes, lnum)
    IN IF IsSome(scope)
       THEN <<Unwrap(Unwrap(scope).ns) \o <<":">> \o value, Unwrap(Unwrap(scope).ns), FALSE>>
       ELSE IF colon_pos > 0
            THEN <<value, SubSeq(value, 1, colon_pos - 1), FALSE>>
            ELSE <<fallback_namespace \o <<":">> \o value, fallback_namespace, TRUE>>

\* CallVisitor::resolve_namespace: <<key, namespace, fallback>>
resolve_namespace(value, lnum, scopes, fallback_namespace) ==
    LET colon_pos == FindColon(value, 1)
        scope == FirstNsScope(scopes, lnum)
    IN IF colon_pos > 0
       THEN <<value, SubSeq(value, 1, colon_pos - 1), FALSE>>
       ELSE IF IsSome(scope)
            THEN <<Unwrap(Unwrap(scope).ns) \o <<":">> \o value, Unwrap(Unwrap(scope).ns), FALSE>>
            ELSE <<fallback_namespace \o <<":">> \o value, fallback_namespace, TRUE>>

\* an alias recognised on every line of the file
is_translation_call_any_line(func_name, call, scopes) ==
    \/ func_name = "t"
    \/ \E i \in 1..Len(scopes) : scopes[i].t_func = Some(func_name)

\* CallVisitor::is_translation_call: "t", or the alias of a scope that
\* contains the line the call starts on
is_translation_call(func_name, call, scopes) ==
    \/ func_name = "t"
    \/ \E i \in 1..Len(scopes) :
          /\ Contains(scopes[i], call.line)
          /\ scopes[i].t_func = Some(func_name)

\* the callee classification at the head of check_call:
\* Some(<<func_name, is_member_t>>), or None where check_call returns
CalleeOf(call) ==
    CASE call.callee.kind = "Ident" -> Some(<<call.callee.sym, FALSE>>)
      [] call.callee.kind = "Member" ->
            IF ~call.callee.computed /\ call.callee.prop = "t"
            THEN Some(<<"t", TRUE>>) ELSE None
      [] OTHER -> None

\* the start line of the range taken as exclusive
InRange_exclusive_start(lnum, range) ==
    ~IsSome(range) \/ ~(lnum <= Unwrap(range).start_line \/ lnum > Unwrap(range).end_line)

InRange(lnum, range) ==
    ~IsSome(range) \/ ~(lnum < Unwrap(range).start_line \/ lnum > Unwrap(range).end_line)

\* CallVisitor::check_call: the items (none or one) this call pushes
check_call(call, consts, scopes, fallback_namespace, range) ==
    LET callee == CalleeOf(call) IN
    IF ~IsSome(callee) THEN <<>>
    ELSE LET func_name == Unwrap(callee)[1]
             is_member_t == Unwrap(callee)[2]
         IN IF is_translation_hook(func_name) THEN <<>>
            ELSE IF ~is_member_t /\ ~is_translation_call(func_name, call, scopes) THEN <<>>
            ELSE IF call.args = <<>> THEN <<>>
            ELSE LET first_arg == Head(call.args)
                     value == eval_string_expr(first_arg, consts)
                     lnum == first_arg.line
                 IN IF ~IsSome(value) THEN <<>>
                    ELSE IF ~InRange(lnum, range) THEN <<>>
                    ELSE LET r == resolve_namespace(Unwrap(value), lnum, scopes,
                                                    fallback_namespace)
                         IN <<ScanItem(r[1], Unwrap(value), r[2], lnum, r[3])>>

RECURSIVE CallVisitExpr(_, _, _, _, _)
RECURSIVE CallVisitExprs(_, _, _, _, _)
RECURSIVE CallVisitStmt(_, _, _, _, _)
RECURSIVE CallVisitStmts(_, _, _, _, _)
RECURSIVE CallVisitDecls(_, _, _, _, _)
RECURSIVE CallVisitJsxElement(_, _, _, _, _)
RECURSIVE CallVisitJsxChildren(_, _, _, _, _)

CallVisitExprs(es, consts, scopes, fb, range) ==
    IF es = <<>> THEN <<>>
    ELSE CallVisitExpr(Head(es), consts, scopes, fb, range)
         \o CallVisitExprs(Tail(es), consts, scopes, fb, range)

\* CallVisitor::visit_expr: the call itself, then its arguments, then its callee
CallVisitExpr(expr, consts, scopes, fb, range) ==
    CASE expr.kind = "Call" ->
            check_call(expr, consts, scopes, fb, range)
            \o CallVisitExprs(expr.args, consts, scopes, fb, range)
            \o CallVisitExpr(expr.callee, consts, scopes, fb, range)
      [] expr.kind = "Arrow" ->
            IF expr.block THEN CallVisitStmts(expr.body, consts, scopes, fb, range)
            ELSE CallVisitExpr(expr.body, consts, scopes, fb, range)
      [] expr.kind = "Paren" -> CallVisitExpr(expr.expr, consts, scopes, fb, range)
      [] expr.kind = "Bin" ->
            CallVisitExpr(expr.left, consts, scopes, fb, range)
            \o CallVisitExpr(expr.right, consts, scopes, fb, range)
      [] expr.kind = "Tpl" -> CallVisitExprs(expr.exprs, consts, scopes, fb, range)
      [] expr.kind = "Member" -> CallVisitExpr(expr.obj, consts, scopes, fb, range)
      [] expr.kind = "Await" -> CallVisitExpr(expr.arg, consts, scopes, fb, range)
      [] expr.kind = "JSXElement" -> CallVisitJsxElement(expr, consts, scopes, fb, range)
      [] expr.kind = "JSXFragment" ->
            CallVisitJsxChildren(expr.children, consts, scopes, fb, range)
      [] expr.kind \in {"TsAs", "TsSatisfies", "TsNonNull"} ->
            CallVisitExpr(expr.expr, consts, scopes, fb, range)
      [] OTHER -> <<>>

\* CallVisitor::visit_jsx_element: the expressions of the attributes (attrs
\* lists the expressions of the attribute values written {expr}), then the
\* children
CallVisitJsxElement(jsx, consts, scopes, fb, range) ==
    CallVisitExprs(jsx.attrs, consts, scopes, fb, range)
    \o CallVisitJsxChildren(jsx.children, consts, scopes, fb, range)

\* CallVisitor::visit_jsx_child, over the children of an element or fragment
CallVisitJsxChildren(cs, consts, scopes, fb, range) ==
    IF cs = <<>> THEN <<>>
    ELSE (CASE Head(cs).kind = "JSXExprContainer" ->
                  CallVisitExpr(Head(cs).expr, consts, scopes, fb, range)
            [] Head(cs).kind = "JSXElement" ->
                  CallVisitJsxElement(Head(cs), consts, scopes, fb, range)
            [] Head(cs).kind = "JSXFragment" ->
                  CallVisitJsxChildren(Head(cs).children, consts, scopes, fb, range)
            [] OTHER -> <<>>)
         \o CallVisitJsxChildren(Tail(cs), consts, scopes, fb, range)

\* CallVisitor::visit_decl, Decl::Var: the initializers
CallVisitDecls(decls, consts, scopes, fb, range) ==
    IF decls = <<>> THEN <<>>
    ELSE (IF IsSome(Head(decls).init)
          THEN CallVisitExpr(Unwrap(Head(decls).init), consts, scopes, fb, range)
          ELSE <<>>)
         \o CallVisitDecls(Tail(decls), consts, scopes, fb, range)

\* CallVisitor::visit_stmt and visit_decl
CallVisitStmt(stmt, consts, scopes, fb, range) ==
    CASE stmt.kind = "Var" -> CallVisitDecls(stmt.decls, consts, scopes, fb, range)
      [] stmt.kind = "Fn" -> CallVisitStmts(stmt.body, consts, scopes, fb, range)
      [] stmt.kind = "Expr" -> CallVisitExpr(stmt.expr, consts, scopes, fb, range)
      [] stmt.kind = "Return" ->
            IF IsSome(stmt.arg)
            THEN CallVisitExpr(Unwrap(stmt.arg), consts, scopes, fb, range)
            ELSE <<>>
      [] OTHER -> <<>>

CallVisitStmts(stmts, consts, scopes, fb, range) ==
    IF stmts = <<>> THEN <<>>
    ELSE CallVisitStmt(Head(stmts), consts, scopes, fb, range)
         \o CallVisitStmts(Tail(stmts), consts, scopes, fb, range)

\* extract_calls: the items in traversal order
extract_calls(m, consts, scopes, fb, range) == CallVisitStmts(m, consts, scopes, fb, range)

\* scan::extract on a parsed module
ExtractItems(m, fb, range) ==
    LET consts == collect_consts(m)
        scopes == collect_scopes_precise(m, consts)
    IN extract_calls(m, consts, scopes, fb, range)

(* ------------------------- the edited source --------------------------- *)
(* The sources are written statement by statement; each family is a small  *)
(* vocabulary of statements, so that every source of a family, up to the   *)
(* bounds, is analysed.                                                    *)
Families == {"ns", "colon", "alias", "pattern", "member", "hook", "const", "ts", "tpl", "dyn", "range"}

HookDecl(p, name, args, l) ==
    VarDecl("const", <<Declarator(p, Some(Call(Ident(name, l), args)))>>)
TCall(callee, args) == ExprStmt(Call(callee, args))
ConstDecl(k, name, init) == VarDecl(k, <<Declarator(PatIdent(name), Some(init))>>)
ObjT == PatObject(<<PropAssign("t")>>)
ObjAlias(a) == PatObject(<<PropAssign("i18n"), PropKeyValue("t", PatIdent(a)), PropRest>>)

\* <b a={e1} ...>children</b> on line l; () => { body } on line l; {e} as a child
JsxElem(attrs, children, l) == JSXElement(<<"b">>, attrs, children, l, 0, TRUE)
ArrowBlock(body, l) == Arrow(TRUE, body, l, l)
JsxChild(e, l) == JSXExprContainer(e, l, 0)

\* the one-line statements of a family, written on line l
Stmts(f, l) ==
    CASE f = "ns" ->
        { HookDecl(ObjT, "useTranslation", <<StrLit(<<"a">>, l)>>, l),
          HookDecl(ObjT, "useTranslation", <<StrLit(<<"b">>, l)>>, l),
          HookDecl(ObjT, "useTranslation", <<>>, l),
          TCall(Ident("t", l), <<StrLit(<<"k">>, l)>>) }
      [] f = "ctx" ->
        { HookDecl(ObjT, "useTranslation", <<StrLit(<<"a">>, l)>>, l),
          HookDecl(PatIdent("tr"), "useTranslations", <<>>, l),
          HookDecl(PatArray(<<None, Some(PatIdent("tr"))>>), "useTranslation",
                   <<StrLit(<<"b">>, l)>>, l) }
      [] f = "colon" ->
        { HookDecl(ObjT, "useTranslation", <<StrLit(<<"a">>, l)>>, l),
          TCall(Ident("t", l), <<StrLit(<<"n", ":", "k">>, l)>>),
          TCall(Ident("t", l), <<StrLit(<<":", "k", ":">>, l)>>) }
      [] f = "alias" ->
        { HookDecl(ObjAlias("tr"), "useTranslation", <<StrLit(<<"a">>, l)>>, l),
          HookDecl(PatIdent("tr"), "useTranslations", <<StrLit(<<"b">>, l)>>, l),
          TCall(Ident("tr", l), <<StrLit(<<"k">>, l)>>),
          TCall(Ident("foo", l), <<StrLit(<<"k">>, l)>>) }
      [] f = "pattern" ->
        { VarDecl("const", <<Declarator(PatArray(<<Some(PatIdent("tr"))>>),
              Some(Await(Call(Ident("getTranslations", l), <<StrLit(<<"a">>, l)>>), l)))>>),
          HookDecl(PatArray(<<None, Some(PatIdent("tr"))>>), "useTranslation",
                   <<StrLit(<<"b">>, l)>>, l),
          HookDecl(PatObject(<<PropAssign("tr"), PropKeyValue("t", PatArray(<<>>))>>),
                   "useTranslation", <<StrLit(<<"b">>, l)>>, l),
          TCall(Ident("tr", l), <<StrLit(<<"k">>, l)>>) }
      [] f = "member" ->
        { TCall(Member(Ident("i18n", l), "t", FALSE), <<StrLit(<<"k">>, l)>>),
          TCall(Member(Ident("i18n", l), "t", TRUE), <<StrLit(<<"k">>, l)>>),
          TCall(Member(Ident("i18n", l), "foo", FALSE), <<StrLit(<<"k">>, l)>>) }
      [] f = "hook" ->
        { HookDecl(PatIdent("useTranslation"), "useTranslations", <<StrLit(<<"b">>, l)>>, l),
          TCall(Ident("useTranslation", l), <<StrLit(<<"k">>, l)>>),
          TCall(Ident("t", l), <<StrLit(<<"k">>, l)>>) }
      [] f = "const" ->
        { ConstDecl("const", "K", StrLit(<<"k">>, l)),
          ConstDecl("const", "K", StrLit(<<"j">>, l)),
          ConstDecl("const", "J", Ident("K", l)),
          TCall(Ident("t", l), <<Ident("K", l)>>),
          TCall(Ident("t", l), <<Ident("J", l)>>) }
      [] f = "ts" ->
        { ConstDecl("const", "K", TsAs(StrLit(<<"k">>, l))),
          TCall(Ident("t", l), <<Ident("K", l)>>),
          TCall(Ident("t", l), <<TsAs(StrLit(<<"k">>, l))>>),
          TCall(Ident("t", l), <<TsNonNull(TsSatisfies(StrLit(<<"k">>, l)))>>) }
      [] f = "tpl" ->
        { ConstDecl("const", "K", StrLit(<<"k">>, l)),
          ConstDecl("const", "J", StrLit(<<"j">>, l)),
          TCall(Ident("t", l), <<Tpl(<<<<>>, <<".">>, <<".", "r">>>>,
                                     <<Ident("K", l), Ident("J", l)>>, l)>>) }
      [] f = "dyn" ->
        { ConstDecl("let", "K", StrLit(<<"k">>, l)),
          TCall(Ident("t", l), <<>>),
          TCall(Ident("t", l), <<Ident("K", l)>>),
          TCall(Ident("t", l), <<Bin("+", Tpl(<<<<"j">>>>, <<>>, l),
                                     Paren(StrLit(<<"k">>, l), l)), NumLit(l)>>) }
      [] f = "range" ->
        { TCall(Ident("t", l), <<StrLit(<<"k">>, l)>>) }
      [] f = "jsx" ->
        { ExprStmt(JsxElem(<<ArrowBlock(<<ConstDecl("const", "K", StrLit(<<"k">>, l)),
                                          TCall(Ident("t", l), <<Ident("K", l)>>)>>, l)>>,
                           <<>>, l)),
          ExprStmt(JsxElem(<<>>,
                           <<JsxChild(ArrowBlock(
                                <<ConstDecl("const", "K", StrLit(<<"k">>, l)),
                                  ReturnStmt(Some(Call(Ident("t", l), <<Ident("K", l)>>)))>>,
                                l), l)>>, l)),
          ExprStmt(JsxElem(<<>>, <<JsxChild(Call(Ident("t", l), <<StrLit(<<"k">>, l)>>), l)>>, l)),
          ExprStmt(ArrowBlock(<<ConstDecl("const", "J", StrLit(<<"j">>, l)),
                                TCall(Ident("t", l), <<Ident("J", l)>>)>>, l)),
          TCall(Ident("t", l), <<Ident("K", l)>>) }

\* the statements of a family that start on line l and end on line l + 1:
\* a call whose first argument is written on the next line
Stmts2(f, l) ==
    CASE f = "alias" -> { TCall(Ident("tr", l), <<StrLit(<<"k">>, l + 1)>>) }
      [] f = "range" -> { TCall(Ident("t", l), <<StrLit(<<"k">>, l + 1)>>) }
      [] OTHER -> {}

Fallbacks(f) == IF f = "colon" THEN {<<"f">>, <<"n">>} ELSE {<<"f">>}

Ranges(f) ==
    IF f = "range"
    THEN {None} \cup {Some(Range(se[1], se[2])) :
                         se \in {x \in (0..MaxLine) \X (0..MaxLine) : x[1] <= x[2]}}
    ELSE {None}

\* every statement node, function declarations and their bodies included
RECURSIVE NumStmts(_)
NumStmts(stmts) ==
    IF stmts = <<>> THEN 0
    ELSE 1 + (IF Head(stmts).kind = "Fn" THEN NumStmts(Head(stmts).body) ELSE 0)
         + NumStmts(Tail(stmts))

LastStmt == module[Len(module)]

\* the module with statement s, ending on line last, written at the cursor
Written(s, last) ==
    IF open
    THEN [module EXCEPT ![Len(module)] = FnDecl(Append(LastStmt.body, s), LastStmt.start, last)]
    ELSE Append(module, s)

\* where the next statement may go: on line 0 in an empty source, after a
\* closing brace on the line of the brace or on the next one, and else on
\* the next line
NewLines ==
    IF module = <<>> THEN {0}
    ELSE IF LastStmt.kind = "Fn" /\ ~open THEN {0, 1}
    ELSE {1}

Init ==
    /\ family \in Families
    /\ module = <<>>
    /\ open = FALSE
    /\ cur = 0
    /\ request = None
    /\ tables = None
    /\ response = None
    /\ token = FALSE
    /\ run = None

\* the editor writes a one-line statement
AddStmt ==
    /\ request = None
    /\ NumStmts(module) < MaxStmts
    /\ \E nl \in NewLines :
          /\ cur + nl <= MaxLine
          /\ \E s \in Stmts(family, cur + nl) :
                /\ module' = Written(s, cur + nl)
                /\ cur' = cur + nl
    /\ UNCHANGED <<token, run, family, open, request, tables, response>>

\* the editor writes a call that spans two lines
AddStmt2 ==
    /\ request = None
    /\ NumStmts(module) < MaxStmts
    /\ \E nl \in NewLines :
          /\ cur + nl + 1 <= MaxLine
          /\ \E s \in Stmts2(family, cur + nl) :
                /\ module' = Written(s, cur + nl + 1)
                /\ cur' = cur + nl + 1
    /\ UNCHANGED <<token, run, family, open, request, tables, response>>

\* the editor writes "function f() {"
OpenFn ==
    /\ request = None
    /\ ~open
    /\ NumStmts(module) < MaxStmts
    /\ \E nl \in NewLines :
          /\ cur + nl <= MaxLine
          /\ module' = Append(module, FnDecl(<<>>, cur + nl, cur + nl))
          /\ cur' = cur + nl
    /\ open' = TRUE
    /\ UNCHANGED <<token, run, family, request, tables, response>>

\* the editor writes the closing "}" on a line of its own
CloseFn ==
    /\ request = None
    /\ open
    /\ \E nl \in {1} :
          /\ cur + nl <= MaxLine
          /\ module' = [module EXCEPT ![Len(module)] =
                            FnDecl(LastStmt.body, LastStmt.start, cur + nl)]
          /\ cur' = cur + nl
    /\ open' = FALSE
    /\ UNCHANGED <<token, run, family, request, tables, response>>

\* a parser that hands back a tree for every source
parse_module_recovering(m, unclosed) == Some(m)

\* parse_module: a source with an unclosed function body does not parse
parse_module(m, unclosed) == IF unclosed THEN None ELSE Some(m)

\* the tables scan::extract builds before it looks at any call
Tables(m) ==
    LET consts == collect_consts(m)
    IN [consts |-> consts, scopes |-> collect_scopes_precise(m, consts)]

\* scan::extract: Ok with the items, or the parse error
extract(m, unclosed, fb, range) ==
    LET parsed == parse_module(m, unclosed) IN
    IF IsSome(parsed)
    THEN [ok |-> TRUE, items |-> ExtractItems(Unwrap(parsed), fb, range)]
    ELSE [ok |-> FALSE, items |-> <<>>]

\* the client sends an extract request for the source as it stands
Extract ==
    /\ request = None
    /\ \E fb \in Fallbacks(family), range \in Ranges(family) :
          /\ request' = Some([fallback_namespace |-> fb, range |-> range])
          /\ tables' = IF open THEN None ELSE Some(Tables(module))
          /\ response' = Some(extract(module, open, fb, range))
    /\ UNCHANGED <<token, run, family, module, open, cur>>

Next == AddStmt \/ AddStmt2 \/ OpenFn \/ CloseFn \/ Extract

Spec == Init /\ [][Next]_vars

(* ===================== properties of scan::extract ===================== *)
(* What follows reads the source on its own terms: the statements in       *)
(* source order with the lines of the function body around them, the call  *)
(* each one makes, and the hook bindings as the documentation words them.  *)

Served == IsSome(response) /\ Unwrap(response).ok
Items == Unwrap(response).items
Req == Unwrap(request)
Consts == Unwrap(tables).consts
Scopes == Unwrap(tables).scopes

\* the statements in source order, each with the line range of the function
\* body it is written in (the whole module for a top-level statement)
RECURSIVE Flat(_, _, _, _)
Flat(stmts, infn, s, e) ==
    IF stmts = <<>> THEN <<>>
    ELSE (IF Head(stmts).kind = "Fn"
          THEN Flat(Head(stmts).body, TRUE, Head(stmts).start, Head(stmts).end)
          ELSE <<[stmt |-> Head(stmts), infn |-> infn, start |-> s, end |-> e]>>)
         \o Flat(Tail(stmts), infn, s, e)

Leaves == Flat(module, FALSE, 0, U32Max)

\* the call a statement consists of: f(...) as a statement, or the (awaited)
\* call that initialises a declaration
StmtCall(stmt) ==
    CASE stmt.kind = "Expr" /\ stmt.expr.kind = "Call" -> Some(stmt.expr)
      [] stmt.kind = "Var" /\ IsSome(stmt.decls[1].init) ->
            LET init == Unwrap(stmt.decls[1].init) IN
            IF init.kind = "Call" THEN Some(init)
            ELSE IF init.kind = "Await" /\ init.arg.kind = "Call" THEN Some(init.arg)
            ELSE None
      [] OTHER -> None

IsHookStmt(stmt) ==
    /\ IsSome(StmtCall(stmt))
    /\ Unwrap(StmtCall(stmt)).callee.kind = "Ident"
    /\ Unwrap(StmtCall(stmt)).callee.sym \in {"useTranslation", "useTranslations", "getTranslations"}

\* the alias a hook statement binds: the declared identifier, t for { t },
\* the renamed identifier for { t: alias }, the first element of an array
\* pattern, and t for a bare hook statement
BoundAlias(stmt) ==
    IF stmt.kind = "Expr" THEN {"t"}
    ELSE LET pat == stmt.decls[1].name IN
         CASE pat.kind = "Ident" -> {pat.sym}
           [] pat.kind = "Array" ->
                IF Len(pat.elems) >= 1 /\ IsSome(pat.elems[1])
                   /\ Unwrap(pat.elems[1]).kind = "Ident"
                THEN {Unwrap(pat.elems[1]).sym} ELSE {}
           [] pat.kind = "Object" ->
                LET binds == {i \in 1..Len(pat.props) :
                                 \/ pat.props[i].kind = "Assign" /\ pat.props[i].key = "t"
                                 \/ /\ pat.props[i].kind = "KeyValue"
                                    /\ pat.props[i].key = "t"
                                    /\ pat.props[i].value.kind = "Ident"}
                    first == CHOOSE i \in binds : \A j \in binds : i <= j
                IN IF binds = {} THEN {}
                   ELSE IF pat.props[first].kind = "Assign" THEN {"t"}
                   ELSE {pat.props[first].value.sym}

HasColon(v) == \E i \in 1..Len(v) : v[i] = ":"
BeforeColon(v) ==
    LET first == CHOOSE i \in 1..Len(v) : v[i] = ":" /\ \A j \in 1..(i - 1) : v[j] # ":"
    IN SubSeq(v, 1, first - 1)

ScopeSet == {Scopes[i] : i \in 1..Len(Scopes)}
\* the collected scopes with a defined namespace whose lines contain lnum
NsScopesAt(lnum) ==
    {sc \in ScopeSet : IsSome(sc.ns) /\ sc.start_line <= lnum /\ lnum <= sc.end_line}

\* the calls t("...") of the source with a literal first argument
LiteralTCalls ==
    {Unwrap(StmtCall(Leaves[i].stmt)) : i \in {j \in 1..Len(Leaves) :
        /\ IsSome(StmtCall(Leaves[j].stmt))
        /\ Unwrap(StmtCall(Leaves[j].stmt)).callee.kind = "Ident"
        /\ Unwrap(StmtCall(Leaves[j].stmt)).callee.sym = "t"
        /\ Unwrap(StmtCall(Leaves[j].stmt)).args # <<>>
        /\ Unwrap(StmtCall(Leaves[j].stmt)).args[1].kind = "Str"}}

ItemSet == {Items[i] : i \in 1..Len(Items)}

Span(sc) == sc.end_line - sc.start_line
Innermost(S) == {sc \in S : \A o \in S : Span(sc) <= Span(o)}

\* C1: a call whose colon-free text is on a line inside some collected scope
\* with a namespace yields a record, and every such record carries the
\* namespace of a smallest-span such scope, key "<namespace>:<text>" and
\* fallback = false.
C1_InnermostScopeNamespace ==
    (Served /\ Req.range = None) =>
        /\ \A it \in ItemSet :
              (~HasColon(it.raw) /\ NsScopesAt(it.lnum) # {}) =>
                  \E sc \in Innermost(NsScopesAt(it.lnum)) :
                      /\ it.namespace = Unwrap(sc.ns)
                      /\ it.key = Unwrap(sc.ns) \o <<":">> \o it.raw
                      /\ it.fallback = FALSE
        /\ \A c \in LiteralTCalls :
              (~HasColon(c.args[1].value) /\ NsScopesAt(c.args[1].line) # {}) =>
                  \E it \in ItemSet : it.lnum = c.args[1].line /\ it.raw = c.args[1].value

\* a record inside two nested scopes with different namespaces, named after
\* the inner one
C1_Witness ==
    /\ Served
    /\ \E it \in ItemSet : \E s1, s2 \in NsScopesAt(it.lnum) :
          /\ Span(s1) < Span(s2)
          /\ s1.ns # s2.ns
          /\ it.namespace = Unwrap(s1.ns)

\* C2: a record whose text contains ':' has key = the text, namespace = the
\* text before the first ':' and fallback = false, whatever scopes enclose
\* the call and whatever the fallback namespace is; every such call yields
\* a record.
C2_ExplicitColonWins ==
    Served =>
        /\ \A it \in ItemSet :
              HasColon(it.raw) =>
                  /\ it.key = it.raw
                  /\ it.namespace = BeforeColon(it.raw)
                  /\ it.fallback = FALSE
        /\ \A c \in LiteralTCalls :
              (HasColon(c.args[1].value) /\ Req.range = None) =>
                  \E it \in ItemSet : it.lnum = c.args[1].line /\ it.raw = c.args[1].value

\* a text with two colons, the first one leading, inside a hook scope
C2_Witness ==
    /\ Served
    /\ \E it \in ItemSet :
          /\ it.raw = <<":", "k", ":">>
          /\ it.namespace = <<>>
          /\ NsScopesAt(it.lnum) # {}
          /\ Req.fallback_namespace = <<"n">>

\* C3: fallback = true exactly for a colon-free text on a line that no
\* collected scope with a namespace contains; the namespace is then the
\* caller's fallback namespace and the key "<fallback>:<text>".
C3_FallbackExactly ==
    Served =>
        \A it \in ItemSet :
            /\ it.fallback = (~HasColon(it.raw) /\ NsScopesAt(it.lnum) = {})
            /\ it.fallback =>
                  /\ it.namespace = Req.fallback_namespace
                  /\ it.key = Req.fallback_namespace \o <<":">> \o it.raw

\* a fallback record on a line inside a scope that has no namespace, in a
\* source that also has a scope with a namespace
C3_Witness ==
    /\ Served
    /\ \E it \in ItemSet :
          /\ it.fallback
          /\ \E sc \in ScopeSet : sc.ns = None /\ sc.start_line <= it.lnum /\ it.lnum <= sc.end_line
          /\ \E sc \in ScopeSet : sc.ns # None

\* the hook statements among the statements all bind an alias over the
\* lines of the function body (or module) they are written in
BindsAt(all, name, line) ==
    \E i \in 1..Len(all) :
        /\ IsHookStmt(all[i].stmt)
        /\ name \in BoundAlias(all[i].stmt)
        /\ all[i].start <= line /\ line <= all[i].end

Translating(all, c) ==
    CASE c.callee.kind = "Ident" ->
            /\ c.callee.sym \notin {"useTranslation", "useTranslations", "getTranslations"}
            /\ (c.callee.sym = "t" \/ BindsAt(all, c.callee.sym, c.line))
      [] c.callee.kind = "Member" -> ~c.callee.computed /\ c.callee.prop = "t"
      [] OTHER -> FALSE

\* <<line, text>> of the records the calls among leaves, statements of the
\* source all, are to yield when arguments are read against the table tbl:
\* one for each translating call whose first argument resolves
RECURSIVE ExpectedRecords(_, _, _)
ExpectedRecords(all, leaves, tbl) ==
    IF leaves = <<>> THEN <<>>
    ELSE LET call == StmtCall(Head(leaves).stmt) IN
         (IF IsSome(call) /\ Translating(all, Unwrap(call)) /\ Unwrap(call).args # <<>>
             /\ IsSome(eval_string_expr(Unwrap(call).args[1], tbl))
          THEN <<<<Unwrap(call).args[1].line,
                   Unwrap(eval_string_expr(Unwrap(call).args[1], tbl))>>>>
          ELSE <<>>)
         \o ExpectedRecords(all, Tail(leaves), tbl)

LineAndText == [i \in 1..Len(Items) |-> <<Items[i].lnum, Items[i].raw>>]

\* C4: the calls that yield a record are exactly those whose callee is t,
\* a member access x.t, or an identifier bound as alias by a hook statement
\* of a scope containing the line of the call; a call of a hook name
\* never yields one.
C4_TranslationCallsExactly ==
    (Served /\ Req.range = None) =>
        LET all == Leaves IN LineAndText = ExpectedRecords(all, all, Consts)

\* a source in which one call of the alias tr is inside the lines of the
\* hook that binds it and another is not
C4_Witness ==
    /\ Served
    /\ Items # <<>>
    /\ \E i, j \in 1..Len(Leaves) :
          /\ IsSome(StmtCall(Leaves[i].stmt)) /\ IsSome(StmtCall(Leaves[j].stmt))
          /\ Unwrap(StmtCall(Leaves[i].stmt)).callee.kind = "Ident"
          /\ Unwrap(StmtCall(Leaves[j].stmt)).callee.kind = "Ident"
          /\ Unwrap(StmtCall(Leaves[i].stmt)).callee.sym = "tr"
          /\ Unwrap(StmtCall(Leaves[j].stmt)).callee.sym = "tr"
          /\ Translating(Leaves, Unwrap(StmtCall(Leaves[i].stmt)))
          /\ ~Translating(Leaves, Unwrap(StmtCall(Leaves[j].stmt)))

\* the calls t(...) of the source that have a first argument
TCalls ==
    {Unwrap(StmtCall(Leaves[i].stmt)) : i \in {j \in 1..Len(Leaves) :
        /\ IsSome(StmtCall(Leaves[j].stmt))
        /\ Unwrap(StmtCall(Leaves[j].stmt)).callee.kind = "Ident"
        /\ Unwrap(StmtCall(Leaves[j].stmt)).callee.sym = "t"
        /\ Unwrap(StmtCall(Leaves[j].stmt)).args # <<>>}}

YieldsText(c, v) == \E it \in ItemSet : it.lnum = c.args[1].line /\ it.raw = v

\* the single-name const declarations of the source, in source order
IsConstDecl(stmt) ==
    stmt.kind = "Var" /\ stmt.declKind = "const" /\ stmt.decls[1].name.kind = "Ident"
    /\ IsSome(stmt.decls[1].init)
DeclName(stmt) == stmt.decls[1].name.sym
DeclInit(stmt) == Unwrap(stmt.decls[1].init)
IsStrConst(stmt, name) ==
    IsConstDecl(stmt) /\ DeclName(stmt) = name /\ DeclInit(stmt).kind = "Str"

\* the expression under its TypeScript wrappers
RECURSIVE Bare(_)
Bare(expr) ==
    IF expr.kind \in {"TsAs", "TsSatisfies", "TsNonNull"} THEN Bare(expr.expr) ELSE expr

\* C5: t(X as const), t(X satisfies T) and t(X!) resolve to the string X
\* resolves to and yield a record, and so does t(K) for const K = X as const.
C5_TsWrappersResolve ==
    (Served /\ Req.range = None) =>
        /\ \A c \in TCalls :
              (c.args[1].kind \in {"TsAs", "TsSatisfies", "TsNonNull"}
               /\ IsSome(eval_string_expr(Bare(c.args[1]), Consts))) =>
                  YieldsText(c, Unwrap(eval_string_expr(Bare(c.args[1]), Consts)))
        /\ \A i \in 1..Len(Leaves) :
              (IsConstDecl(Leaves[i].stmt) /\ DeclInit(Leaves[i].stmt).kind = "TsAs"
               /\ IsSome(eval_string_expr(Bare(DeclInit(Leaves[i].stmt)), EmptyConsts))) =>
                  \A c \in TCalls :
                      (c.args[1].kind = "Ident" /\ c.args[1].sym = DeclName(Leaves[i].stmt)) =>
                          YieldsText(c, Unwrap(eval_string_expr(Bare(DeclInit(Leaves[i].stmt)),
                                                                EmptyConsts)))

\* the text of a template: the quasis with the values of the interpolated
\* identifiers between them
RECURSIVE TplText(_, _, _)
TplText(quasis, exprs, tbl) ==
    IF exprs = <<>> THEN Head(quasis)
    ELSE Head(quasis) \o tbl[Head(exprs).sym] \o TplText(Tail(quasis), Tail(exprs), tbl)

DeclaredBefore(name, i) ==
    \E j \in 1..(i - 1) : IsStrConst(Leaves[j].stmt, name)

\* C6: a template literal whose interpolations are all identifiers bound,
\* by const declarations written before the call, to known strings resolves
\* to the quasis joined with those values and yields a record.
C6_TemplateWithConstsResolves ==
    (Served /\ Req.range = None) =>
        \A i \in 1..Len(Leaves) :
            LET st == Leaves[i].stmt IN
            (/\ st.kind = "Expr" /\ st.expr \in TCalls
             /\ st.expr.args[1].kind = "Tpl"
             /\ st.expr.args[1].exprs # <<>>
             /\ \A e \in 1..Len(st.expr.args[1].exprs) :
                   /\ st.expr.args[1].exprs[e].kind = "Ident"
                   /\ st.expr.args[1].exprs[e].sym \in DOMAIN Consts
                   /\ DeclaredBefore(st.expr.args[1].exprs[e].sym, i)) =>
                YieldsText(st.expr, TplText(st.expr.args[1].quasis, st.expr.args[1].exprs,
                                            Consts))

\* top-level positions of the module
Fns == {i \in 1..Len(module) : module[i].kind = "Fn"}
IsTCallOf(stmt, name) ==
    /\ stmt.kind = "Expr" /\ stmt.expr.kind = "Call"
    /\ stmt.expr.callee.kind = "Ident" /\ stmt.expr.callee.sym = "t"
    /\ stmt.expr.args # <<>>
    /\ stmt.expr.args[1].kind = "Ident" /\ stmt.expr.args[1].sym = name
TextsAt(line) == {it.raw : it \in {x \in ItemSet : x.lnum = line}}

\* C7: with one module-level const K and one const K inside a function, both
\* strings, t(K) inside the function resolves to the inner value and t(K) at
\* module level after the function to the outer value, in source order.
C7_ShadowingUsesNearestScope ==
    (Served /\ Req.range = None) =>
        \A f \in Fns :
            LET body == module[f].body
                outer == {i \in 1..Len(module) : IsStrConst(module[i], "K")}
                inner == {j \in 1..Len(body) : IsStrConst(body[j], "K")}
            IN (Cardinality(outer) = 1 /\ Cardinality(inner) = 1 /\ Cardinality(Fns) = 1) =>
                  LET vo == DeclInit(module[CHOOSE i \in outer : TRUE]).value
                      vi == DeclInit(body[CHOOSE j \in inner : TRUE]).value
                  IN /\ \A j \in 1..Len(body) :
                           IsTCallOf(body[j], "K") =>
                               TextsAt(body[j].expr.args[1].line) = {vi}
                     /\ \A i \in (f + 1)..Len(module) :
                           IsTCallOf(module[i], "K") =>
                               TextsAt(module[i].expr.args[1].line) = {vo}
                     /\ \A a, b \in 1..Len(Items) : a < b => Items[a].lnum <= Items[b].lnum

\* the table the const declarations of the source give when read in source
\* order, a later declaration of a name replacing an earlier one wherever
\* it is written
RECURSIVE LastDeclared(_, _)
LastDeclared(leaves, tbl) ==
    IF leaves = <<>> THEN tbl
    ELSE LET st == Head(leaves).stmt
             val == IF IsConstDecl(st) THEN eval_string_expr(DeclInit(st), tbl) ELSE None
         IN LastDeclared(Tail(leaves),
                IF IsSome(val)
                THEN [n \in DOMAIN tbl \cup {DeclName(st)} |->
                         IF n = DeclName(st) THEN Unwrap(val) ELSE tbl[n]]
                ELSE tbl)

ConstNames == {DeclName(Leaves[i].stmt) : i \in {j \in 1..Len(Leaves) : IsConstDecl(Leaves[j].stmt)}}

\* a first argument that is no compile-time string: an identifier that no
\* const declares (unbound, or bound by let or var), or a template that
\* interpolates one
Unbound(arg) ==
    CASE arg.kind = "Ident" -> arg.sym \notin ConstNames
      [] arg.kind = "Tpl" ->
            \E e \in 1..Len(arg.exprs) :
                arg.exprs[e].kind = "Ident" /\ arg.exprs[e].sym \notin ConstNames
      [] OTHER -> FALSE

\* a call statement with no first argument or an unbound one
IsDynamicCall(stmt) ==
    /\ stmt.kind = "Expr" /\ stmt.expr.kind = "Call"
    /\ (stmt.expr.args = <<>> \/ Unbound(stmt.expr.args[1]))

\* the source without its dynamic call statements, every line kept
RECURSIVE Strip(_)
Strip(stmts) ==
    IF stmts = <<>> THEN <<>>
    ELSE (IF Head(stmts).kind = "Fn"
          THEN <<FnDecl(Strip(Head(stmts).body), Head(stmts).start, Head(stmts).end)>>
          ELSE IF IsDynamicCall(Head(stmts)) THEN <<>> ELSE <<Head(stmts)>>)
         \o Strip(Tail(stmts))

\* C9: a call without a first argument, or with one that is no compile-time
\* string, yields no record and no error, and the records of the other
\* calls are what they are without it.
C9_UnresolvableCallsAreSkipped ==
    /\ (IsSome(response) /\ ~open) => Unwrap(response).ok
    /\ Served =>
          LET all == Leaves
              rest == Strip(module)
          IN /\ \A i \in 1..Len(all) :
                   IsDynamicCall(all[i].stmt) =>
                       /\ TextsAt(all[i].stmt.expr.line) = {}
                       /\ all[i].stmt.expr.args # <<>> =>
                             TextsAt(all[i].stmt.expr.args[1].line) = {}
             /\ rest # module =>
                   Items = ExtractItems(rest, Req.fallback_namespace, Req.range)

\* a source with a call of an identifier bound by let and a call that
\* yields a record
C9_Witness ==
    /\ Served
    /\ Items # <<>>
    /\ \E i, j \in 1..Len(Leaves) :
          /\ j < i
          /\ Leaves[j].stmt.kind = "Var" /\ Leaves[j].stmt.declKind = "let"
          /\ IsDynamicCall(Leaves[i].stmt)
          /\ Leaves[i].stmt.expr.args # <<>>
          /\ Leaves[i].stmt.expr.args[1].kind = "Ident"
          /\ Leaves[i].stmt.expr.args[1].sym = DeclName(Leaves[j].stmt)

WithinRange(it) ==
    Unwrap(Req.range).start_line <= it.lnum /\ it.lnum <= Unwrap(Req.range).end_line

\* C10: the records returned for a range are the records returned without
\* a range whose line is inside the range, in the same order and equal
\* field by field.
C10_RangeFiltersRecords ==
    (Served /\ IsSome(Req.range)) =>
        Items = SelectSeq(ExtractItems(module, Req.fallback_namespace, None), WithinRange)

\* a request with a range that keeps a record and drops another, in a
\* source with a call whose argument is on the line after the callee
C10_Witness ==
    /\ Served
    /\ IsSome(Req.range)
    /\ Items # <<>>
    /\ Len(Items) < Len(ExtractItems(module, Req.fallback_namespace, None))
    /\ \E i \in 1..Len(Leaves) :
          /\ Leaves[i].stmt.kind = "Expr"
          /\ Leaves[i].stmt.expr.line < Leaves[i].stmt.expr.args[1].line
          /\ Leaves[i].stmt.expr.line < Unwrap(Req.range).start_line

(* ------------------------- context query ------------------------------- *)
TranslationContext(n, t, f, h) ==
    [namespace |-> n, t_func |-> t, found_hook |-> f, has_any_hook |-> h]

\* only a scope with a namespace counts as enclosing
RECURSIVE found_scope_with_ns(_, _)
found_scope_with_ns(scopes, row) ==
    IF scopes = <<>> THEN None
    ELSE IF Contains(Head(scopes), row) /\ IsSome(Head(scopes).ns) THEN Some(Head(scopes))
    ELSE found_scope_with_ns(Tail(scopes), row)

\* the loop of translation_context_at: the first scope, in list order, whose
\* lines contain row
RECURSIVE found_scope(_, _)
found_scope(scopes, row) ==
    IF scopes = <<>> THEN None
    ELSE IF Contains(Head(scopes), row) THEN Some(Head(scopes))
    ELSE found_scope(Tail(scopes), row)

\* scan::translation_context_at: Ok with the context, or the parse error
translation_context_at(m, unclosed, row, fallback_namespace) ==
    LET parsed == parse_module(m, unclosed) IN
    IF IsSome(parsed)
    THEN LET consts == collect_consts(Unwrap(parsed))
             scopes == collect_scopes_precise(Unwrap(parsed), consts)
             found == found_scope(scopes, row)
         IN [ok |-> TRUE,
             ctx |-> TranslationContext(
                 IF IsSome(found) /\ IsSome(Unwrap(found).ns)
                 THEN Unwrap(Unwrap(found).ns) ELSE fallback_namespace,
                 IF IsSome(found) /\ IsSome(Unwrap(found).t_func)
                 THEN Unwrap(Unwrap(found).t_func) ELSE "t",
                 IsSome(found),
                 scopes # <<>>)]
    ELSE [ok |-> FALSE]

\* the context query is asked about sources made of hook statements
InitCtx ==
    /\ family = "ctx"
    /\ module = <<>>
    /\ open = FALSE
    /\ cur = 0
    /\ request = None
    /\ tables = None
    /\ response = None
    /\ token = FALSE
    /\ run = None

\* the client asks for the context of a row of the source as it stands, or
\* of the row after its last line
TranslationContextAt ==
    /\ request = None
    /\ \E row \in 0..(cur + 1), fb \in Fallbacks(family) :
          /\ request' = Some([row |-> row, fallback_namespace |-> fb])
          /\ tables' = IF open THEN None ELSE Some(Tables(module))
          /\ response' = Some(translation_context_at(module, open, row, fb))
    /\ UNCHANGED <<token, run, family, module, open, cur>>

NextCtx == AddStmt \/ OpenFn \/ CloseFn \/ TranslationContextAt

SpecCtx == InitCtx /\ [][NextCtx]_vars

Ctx == Unwrap(response).ctx
\* the collected scopes whose lines contain row
ScopesAt(row) == {sc \in ScopeSet : sc.start_line <= row /\ row <= sc.end_line}

\* C11: on a row inside some collected scope the context has found_hook =
\* true and the namespace and t_func of a smallest-span such scope (the
\* fallback namespace and "t" where that scope has none); on a row inside
\* no scope it has the fallback namespace, "t" and found_hook = false;
\* has_any_hook is true exactly when the source has a hook statement.
C11_ContextFromInnermostScope ==
    Served =>
        LET S == ScopesAt(Req.row) IN
        /\ S # {} =>
              /\ Ctx.found_hook
              /\ \E sc \in Innermost(S) :
                    /\ Ctx.namespace = IF IsSome(sc.ns) THEN Unwrap(sc.ns)
                                       ELSE Req.fallback_namespace
                    /\ Ctx.t_func = IF IsSome(sc.t_func) THEN Unwrap(sc.t_func) ELSE "t"
        /\ S = {} =>
              /\ ~Ctx.found_hook
              /\ Ctx.namespace = Req.fallback_namespace
              /\ Ctx.t_func = "t"
        /\ Ctx.has_any_hook = (\E i \in 1..Len(Leaves) : IsHookStmt(Leaves[i].stmt))

\* a row inside two nested scopes of different namespaces, answered with the
\* namespace of the inner one and the default function name it leaves open
C11_Witness ==
    /\ Served
    /\ Ctx.found_hook
    /\ \E s1, s2 \in ScopesAt(Req.row) :
          /\ Span(s1) < Span(s2)
          /\ IsSome(s1.ns) /\ IsSome(s2.ns) /\ s1.ns # s2.ns
          /\ Ctx.namespace = Unwrap(s1.ns)
          /\ s1.t_func = None /\ s2.t_func = Some("t")

(* ===================== hardcoded-text detector ========================= *)
(* rust/src/hardcoded.rs.  Here nodes carry the line and column of the    *)
(* start of their span, JSX text the line and column of its end as well.  *)
(* A node under construction has closed = FALSE.                          *)

Cond(t, a, b) == [kind |-> "Cond", test |-> t, cons |-> a, alt |-> b, line |-> t.line]
\* an expression with the column of its span
AtCol(e, c) == [f \in DOMAIN e \cup {"col"} |-> IF f = "col" THEN c ELSE e[f]]

HardcodedItem(l, c, el, ec, t, k) ==
    [lnum |-> l, col |-> c, end_lnum |-> el, end_col |-> ec, text |-> t, kind |-> k]

\* the characters the model writes text with that take two bytes in UTF-8
TwoByteChars == {"é"}
Whitespace == {" ", "\n"}

\* str::len: the length in bytes
RECURSIVE StrLen(_)
StrLen(text) ==
    IF text = <<>> THEN 0
    ELSE (IF Head(text) \in TwoByteChars THEN 2 ELSE 1) + StrLen(Tail(text))

\* str::split_whitespace: the maximal runs of non-whitespace characters
RECURSIVE SplitWhitespace(_, _, _)
SplitWhitespace(text, word, acc) ==
    IF text = <<>> THEN (IF word = <<>> THEN acc ELSE Append(acc, word))
    ELSE IF Head(text) \in Whitespace
         THEN SplitWhitespace(Tail(text), <<>>, IF word = <<>> THEN acc ELSE Append(acc, word))
         ELSE SplitWhitespace(Tail(text), Append(word, Head(text)), acc)

\* [&str]::join
RECURSIVE Join(_, _)
Join(words, sep) ==
    IF words = <<>> THEN <<>>
    ELSE IF Len(words) = 1 THEN Head(words)
    ELSE Head(words) \o sep \o Join(Tail(words), sep)

RECURSIVE TrimStart(_)
TrimStart(text) ==
    IF text # <<>> /\ Head(text) \in Whitespace THEN TrimStart(Tail(text)) ELSE text

RECURSIVE TrimEnd(_)
TrimEnd(text) ==
    IF text # <<>> /\ text[Len(text)] \in Whitespace
    THEN TrimEnd(SubSeq(text, 1, Len(text) - 1)) ELSE text

\* str::trim
Trim(text) == TrimEnd(TrimStart(text))

\* text kept as written
normalize_identity(text) == text

normalize_whitespace(text) == Trim(Join(SplitWhitespace(text, <<>>, <<>>), <<" ">>))

\* eval_literal: a string literal, a template without substitutions, or
\* one of these in parentheses
RECURSIVE eval_literal(_)
eval_literal(expr) ==
    CASE expr.kind = "Str" -> Some(expr.value)
      [] expr.kind = "Tpl" ->
            IF expr.exprs # <<>> THEN None ELSE Some(ConcatAll(expr.quasis))
      [] expr.kind = "Paren" -> eval_literal(expr.expr)
      [] OTHER -> None

AncestorCallExpr(name) == [kind |-> "CallExpr", name |-> name]
AncestorJSXElement(name) == [kind |-> "JSXElement", name |-> name]

is_inside_t_call(ancestors) ==
    \E i \in 1..Len(ancestors) :
        ancestors[i].kind = "CallExpr" /\ ancestors[i].name = <<"t">>

\* name.rsplit('.').next(): the characters after the last '.'
RECURSIVE ShortName(_)
ShortName(name) ==
    IF name = <<>> \/ name[Len(name)] = "." THEN <<>>
    ELSE Append(ShortName(SubSeq(name, 1, Len(name) - 1)), name[Len(name)])

\* only the enclosing element looked at
is_inside_excluded_parent_only(ancestors, exclude_set) ==
    /\ ancestors # <<>>
    /\ ancestors[Len(ancestors)].kind = "JSXElement"
    /\ \/ ancestors[Len(ancestors)].name \in exclude_set
       \/ ShortName(ancestors[Len(ancestors)].name) \in exclude_set

is_inside_excluded(ancestors, exclude_set) ==
    \E i \in 1..Len(ancestors) :
        /\ ancestors[i].kind = "JSXElement"
        /\ \/ ancestors[i].name \in exclude_set
           \/ ShortName(ancestors[i].name) \in exclude_set

in_range(start_line, end_line, range) ==
    \/ range = None
    \/ end_line >= Unwrap(range).start_line /\ start_line <= Unwrap(range).end_line

\* get_jsx_element_name / jsx_object_name: the identifiers joined with '.'
get_jsx_element_name(name) == Join(name, <<".">>)

\* v collects the fields of the visitor that do not change: range,
\* min_length, exclude_set
check_jsx_text(text, ancestors, v) ==
    IF ~in_range(text.line, text.end_line, v.range) THEN <<>>
    ELSE IF is_inside_excluded(ancestors, v.exclude_set) THEN <<>>
    ELSE IF is_inside_t_call(ancestors) THEN <<>>
    ELSE LET normalized == normalize_whitespace(text.value) IN
         IF StrLen(normalized) >= v.min_length
         THEN <<HardcodedItem(text.line, text.col, text.end_line, text.end_col,
                              normalized, "jsx_text")>>
         ELSE <<>>

check_jsx_literal(expr, container, ancestors, v) ==
    IF ~in_range(container.line, container.end_line, v.range) THEN <<>>
    ELSE IF is_inside_excluded(ancestors, v.exclude_set) THEN <<>>
    ELSE IF is_inside_t_call(ancestors) THEN <<>>
    ELSE LET literal == eval_literal(expr) IN
         IF IsSome(literal) /\ StrLen(Trim(Unwrap(literal))) >= v.min_length
         THEN <<HardcodedItem(expr.line, expr.col, expr.line, expr.col,
                              Unwrap(literal), "jsx_literal")>>
         ELSE <<>>

\* only a callee that is an identifier tracked
HcCalleeName_ident_only(call) ==
    IF call.callee.kind = "Ident" THEN Some(<<call.callee.sym>>) ELSE None

\* the callee name tracked for a call: the identifier, or the property of
\* a non-computed member access
HcCalleeName(call) ==
    CASE call.callee.kind = "Ident" -> Some(<<call.callee.sym>>)
      [] call.callee.kind = "Member" ->
            IF call.callee.computed THEN None ELSE Some(<<call.callee.prop>>)
      [] OTHER -> None

RECURSIVE HcVisitExprs(_, _, _)
RECURSIVE HcVisitExpr(_, _, _)
RECURSIVE HcVisitJsxElement(_, _, _)
RECURSIVE HcVisitJsxChild(_, _, _)
RECURSIVE HcVisitJsxChildren(_, _, _)
RECURSIVE HcVisitStmts(_, _, _)

HcVisitExprs(es, ancestors, v) ==
    IF es = <<>> THEN <<>>
    ELSE HcVisitExpr(Head(es), ancestors, v) \o HcVisitExprs(Tail(es), ancestors, v)

\* HardcodedVisitor::visit_expr
HcVisitExpr(expr, ancestors, v) ==
    CASE expr.kind = "JSXElement" -> HcVisitJsxElement(expr, ancestors, v)
      [] expr.kind = "JSXFragment" -> HcVisitJsxChildren(expr.children, ancestors, v)
      [] expr.kind = "Call" ->
            LET callee_name == HcCalleeName(expr) IN
            HcVisitExprs(expr.args,
                         IF IsSome(callee_name)
                         THEN Append(ancestors, AncestorCallExpr(Unwrap(callee_name)))
                         ELSE ancestors, v)
            \o HcVisitExpr(expr.callee, ancestors, v)
      [] expr.kind = "Arrow" ->
            IF expr.block THEN HcVisitStmts(expr.body, ancestors, v)
            ELSE HcVisitExpr(expr.body, ancestors, v)
      [] expr.kind = "Paren" -> HcVisitExpr(expr.expr, ancestors, v)
      [] expr.kind = "Cond" ->
            HcVisitExpr(expr.test, ancestors, v) \o HcVisitExpr(expr.cons, ancestors, v)
            \o HcVisitExpr(expr.alt, ancestors, v)
      [] OTHER -> <<>>

\* HardcodedVisitor::visit_jsx_element
HcVisitJsxElement(jsx, ancestors, v) ==
    LET inside == Append(ancestors, AncestorJSXElement(get_jsx_element_name(jsx.name)))
    IN HcVisitExprs(jsx.attrs, inside, v) \o HcVisitJsxChildren(jsx.children, inside, v)

\* HardcodedVisitor::visit_jsx_child
HcVisitJsxChild(child, ancestors, v) ==
    CASE child.kind = "JSXText" -> check_jsx_text(child, ancestors, v)
      [] child.kind = "JSXExprContainer" ->
            check_jsx_literal(child.expr, child, ancestors, v)
            \o HcVisitExpr(child.expr, ancestors, v)
      [] child.kind = "JSXElement" -> HcVisitJsxElement(child, ancestors, v)
      [] child.kind = "JSXFragment" -> HcVisitJsxChildren(child.children, ancestors, v)
      [] OTHER -> <<>>

HcVisitJsxChildren(cs, ancestors, v) ==
    IF cs = <<>> THEN <<>>
    ELSE HcVisitJsxChild(Head(cs), ancestors, v) \o HcVisitJsxChildren(Tail(cs), ancestors, v)

\* HardcodedVisitor::visit_module, visit_stmt, visit_decl
HcVisitStmts(stmts, ancestors, v) ==
    IF stmts = <<>> THEN <<>>
    ELSE (CASE Head(stmts).kind = "Expr" -> HcVisitExpr(Head(stmts).expr, ancestors, v)
            [] Head(stmts).kind = "Return" ->
                  IF IsSome(Head(stmts).arg)
                  THEN HcVisitExpr(Unwrap(Head(stmts).arg), ancestors, v) ELSE <<>>
            [] Head(stmts).kind = "Var" ->
                  HcVisitExprs([i \in 1..Len(Head(stmts).decls) |->
                                   IF IsSome(Head(stmts).decls[i].init)
                                   THEN Unwrap(Head(stmts).decls[i].init)
                                   ELSE NumLit(0)], ancestors, v)
            [] Head(stmts).kind = "Fn" -> HcVisitStmts(Head(stmts).body, ancestors, v)
            [] OTHER -> <<>>)
         \o HcVisitStmts(Tail(stmts), ancestors, v)

\* a.lnum.cmp(&b.lnum).then(a.col.cmp(&b.col)) is Less or Equal
PositionLeq(a, b) == a.lnum < b.lnum \/ (a.lnum = b.lnum /\ a.col <= b.col)

\* stable insertion of x behind the items not after it
RECURSIVE InsertByPosition(_, _)
InsertByPosition(x, sorted) ==
    IF sorted = <<>> THEN <<x>>
    ELSE IF PositionLeq(Head(sorted), x)
         THEN <<Head(sorted)>> \o InsertByPosition(x, Tail(sorted))
         ELSE <<x>> \o sorted

\* the items in the order the traversal found them
sort_by_traversal(items) == items

\* items.sort_by(lnum, then col)
RECURSIVE sort_by_position(_)
sort_by_position(items) ==
    IF items = <<>> THEN <<>>
    ELSE InsertByPosition(items[Len(items)],
                          sort_by_position(SubSeq(items, 1, Len(items) - 1)))

\* hardcoded::extract: Ok with the sorted items, or the parse error
hardcoded_extract(m, unclosed, range, min_length, exclude_components) ==
    LET parsed == parse_module(m, unclosed) IN
    IF IsSome(parsed)
    THEN [ok |-> TRUE,
          items |-> sort_by_position(
              HcVisitStmts(Unwrap(parsed), <<>>,
                           [range |-> range, min_length |-> min_length,
                            exclude_set |-> exclude_components]))]
    ELSE [ok |-> FALSE, items |-> <<>>]

(* ------------------------- edited JSX source --------------------------- *)
MaxNodes == 3   \* elements, calls, texts and literals written in a source

\* a call with its column, being written (closed = FALSE) or complete
CallNode(callee, args, c, done) ==
    [f \in DOMAIN Call(callee, args) \cup {"col", "closed"} |->
        CASE f = "col" -> c [] f = "closed" -> done [] OTHER -> Call(callee, args)[f]]

\* a node whose children or arguments are still being written
IsOpenNode(n) ==
    CASE n.kind = "JSXElement" -> ~n.closed
      [] n.kind = "Call" -> ~n.closed
      [] n.kind = "JSXExprContainer" -> n.expr.kind = "Call" /\ ~n.expr.closed
      [] OTHER -> FALSE

\* the children of an element, the arguments of a call
Kids(n) ==
    CASE n.kind = "JSXElement" -> n.children
      [] n.kind = "Call" -> n.args
      [] n.kind = "JSXExprContainer" /\ n.expr.kind = "Call" -> n.expr.args
      [] OTHER -> <<>>

SetKids(n, ks) ==
    CASE n.kind = "JSXElement" -> [n EXCEPT !.children = ks]
      [] n.kind = "Call" -> [n EXCEPT !.args = ks]
      [] n.kind = "JSXExprContainer" -> [n EXCEPT !.expr.args = ks]

HasOpenKid(n) == Kids(n) # <<>> /\ IsOpenNode(Kids(n)[Len(Kids(n))])

\* what the innermost open node of the open node n is: "elem" or "call"
RECURSIVE InnerKind(_)
InnerKind(n) ==
    IF HasOpenKid(n) THEN InnerKind(Kids(n)[Len(Kids(n))])
    ELSE IF n.kind = "JSXElement" THEN "elem" ELSE "call"

\* x written at the cursor inside the open node n: as a JSX child inside an
\* element, as an argument inside a call
RECURSIVE InsertIn(_, _)
InsertIn(n, x) ==
    IF HasOpenKid(n)
    THEN SetKids(n, [Kids(n) EXCEPT ![Len(Kids(n))] = InsertIn(@, x)])
    ELSE SetKids(n, Append(Kids(n), IF n.kind = "JSXElement" THEN x.child ELSE x.expr))

\* the closing tag or parenthesis of the innermost open node written
RECURSIVE CloseIn(_)
CloseIn(n) ==
    IF HasOpenKid(n)
    THEN SetKids(n, [Kids(n) EXCEPT ![Len(Kids(n))] = CloseIn(@)])
    ELSE IF n.kind = "JSXExprContainer" THEN [n EXCEPT !.expr.closed = TRUE]
    ELSE [n EXCEPT !.closed = TRUE]

\* the nodes written so far that start on line l (on any line for l = -1)
RECURSIVE CountNodes(_, _)
CountNodes(ns, l) ==
    IF ns = <<>> THEN 0
    ELSE (IF l = -1 \/ Head(ns).line = l THEN 1 ELSE 0)
         + CountNodes(Kids(Head(ns)), l) + CountNodes(Tail(ns), l)

TopExprs == [i \in 1..Len(module) |-> module[i].expr]

\* the column of the next node written on line l
NextCol(l) == 2 * CountNodes(TopExprs, l)

NewLinesIn(v) == Cardinality({i \in 1..Len(v) : v[i] = "\n"})

HcFamilies == {"excl", "tcall", "minlen", "order"}

\* identifiers of element names are sequences of characters
HcElems(f) ==
    IF f = "excl" THEN {<<<<"d">>>>, <<<<"T">>>>, <<<<"N">>, <<"T">>>>}
    ELSE {<<<<"d">>>>}

\* (() => <b>Hi</b>)(...): an arrow function returning an element, called
IIFE(l, c) ==
    Paren(Arrow(FALSE,
                JSXElement(<<<<"b">>>>, <<>>, <<JSXText(<<"H", "i">>, l, c + 1, l, c + 1)>>,
                           l, c, TRUE),
                l, l), l)

HcCallees(f, l, c) ==
    CASE f = "tcall" -> {Ident("t", l), Member(Ident("i18n", l), "t", FALSE), Ident("foo", l)}
      [] f = "order" -> {IIFE(l, c)}
      [] OTHER -> {}

HcTexts(f) ==
    IF f = "minlen"
    THEN {<<"H", "i">>, <<" ">>, <<" ", "a", " ", " ", "b", "\n">>, <<"é">>}
    ELSE {<<"H", "i">>}

HcLits(f) == IF f \in {"excl", "tcall"} THEN {<<"H", "i">>} ELSE {}

HcNewLines(f) == IF f = "order" THEN {0, 1} ELSE {0}

HcMinLengths(f) == IF f = "minlen" THEN 0..3 ELSE {2}

HcExcludes(f) ==
    IF f = "excl" THEN {{<<"T">>}, {<<"N", ".", "T">>}, {}} ELSE {{<<"T">>}}

HcRanges(f) ==
    IF f = "minlen" THEN {None, Some(Range(0, 0)), Some(Range(1, 1))} ELSE {None}

\* the elements and calls that can be opened at line l, column c, each in
\* its form as JSX child and as expression
HcContainers(f, l, c) ==
    {[child |-> JSXElement(n, <<>>, <<>>, l, c, FALSE),
      expr |-> JSXElement(n, <<>>, <<>>, l, c, FALSE), end_line |-> l] : n \in HcElems(f)}
    \cup
    {[child |-> JSXExprContainer(CallNode(callee, <<>>, c + 1, FALSE), l, c),
      expr |-> CallNode(callee, <<>>, c, FALSE), end_line |-> l] : callee \in HcCallees(f, l, c)}

\* the texts (inside an element only) and string literals that can be
\* written at line l, column c
HcLeaves(f, l, c, inner) ==
    (IF inner = "elem"
     THEN {[child |-> JSXText(v, l, c, l + NewLinesIn(v), c + 1),
            expr |-> NumLit(l), end_line |-> l + NewLinesIn(v)] : v \in HcTexts(f)}
     ELSE {})
    \cup
    {[child |-> JSXExprContainer(AtCol(StrLit(v, l), c + 1), l, c),
      expr |-> AtCol(StrLit(v, l), c), end_line |-> l] : v \in HcLits(f)}

InitHc ==
    /\ family \in HcFamilies
    /\ module = <<>>
    /\ open = FALSE
    /\ cur = 0
    /\ request = None
    /\ tables = None
    /\ response = None
    /\ token = FALSE
    /\ run = None

\* the statement x becomes, or the last statement with x written inside
HcWritten(x) ==
    IF open
    THEN [module EXCEPT ![Len(module)] = ExprStmt(InsertIn(LastStmt.expr, x))]
    ELSE Append(module, ExprStmt(x.expr))

\* the editor writes an opening tag, or a callee and "(": the source is one
\* expression statement
HcOpen ==
    /\ request = None
    /\ open \/ module = <<>>
    /\ CountNodes(TopExprs, -1) < MaxNodes
    /\ \E nl \in HcNewLines(family) :
          /\ cur + nl <= MaxLine
          /\ nl = 1 => module # <<>>
          /\ \E x \in HcContainers(family, cur + nl, NextCol(cur + nl)) :
                /\ module' = HcWritten(x)
                /\ cur' = cur + nl
    /\ open' = TRUE
    /\ UNCHANGED <<token, run, family, request, tables, response>>

\* the editor writes a text or a string literal inside the open node
HcWrite ==
    /\ request = None
    /\ open
    /\ CountNodes(TopExprs, -1) < MaxNodes
    /\ \E nl \in HcNewLines(family) :
          /\ cur + nl <= MaxLine
          /\ \E x \in HcLeaves(family, cur + nl, NextCol(cur + nl), InnerKind(LastStmt.expr)) :
                /\ x.end_line <= MaxLine
                /\ module' = HcWritten(x)
                /\ cur' = x.end_line
    /\ UNCHANGED <<token, run, family, open, request, tables, response>>

\* the editor writes the closing tag or ")" of the innermost open node
HcClose ==
    /\ request = None
    /\ open
    /\ module' = [module EXCEPT ![Len(module)] = ExprStmt(CloseIn(LastStmt.expr))]
    /\ open' = IsOpenNode(CloseIn(LastStmt.expr))
    /\ UNCHANGED <<token, run, family, cur, request, tables, response>>

\* the client sends a hardcoded-text request for the source as it stands
HcExtract ==
    /\ request = None
    /\ \E range \in HcRanges(family), min_length \in HcMinLengths(family),
          exclude_components \in HcExcludes(family) :
          /\ request' = Some([range |-> range, min_length |-> min_length,
                              exclude_components |-> exclude_components])
          /\ response' = Some(hardcoded_extract(module, open, range, min_length,
                                                exclude_components))
    /\ UNCHANGED <<token, run, family, module, open, cur, tables>>

NextHc == HcOpen \/ HcWrite \/ HcClose \/ HcExtract

SpecHc == InitHc /\ [][NextHc]_vars

(* --------------------- hardcoded text: properties ---------------------- *)
HcLeaf(k, n, v, elems, calls) ==
    [kind |-> k, line |-> n.line, col |-> n.col,
     end_line |-> IF k = "text" THEN n.end_line ELSE n.line,
     value |-> v, node |-> n, elems |-> elems, calls |-> calls]

\* the name a call is made under: f for f(...), p for x.p(...)
CalledAs(call) ==
    CASE call.callee.kind = "Ident" -> {call.callee.sym}
      [] call.callee.kind = "Member" /\ ~call.callee.computed -> {call.callee.prop}
      [] OTHER -> {}

\* the JSX texts ("text"), string-literal children ("lit") and call
\* children ("call") at or below a node, each with the names of the
\* elements and of the calls it is inside of
RECURSIVE JsxLeaves(_, _, _)
RECURSIVE JsxLeavesOfAll(_, _, _)
JsxLeaves(n, elems, calls) ==
    CASE n.kind = "JSXText" -> {HcLeaf("text", n, n.value, elems, calls)}
      [] n.kind = "JSXExprContainer" ->
            IF n.expr.kind = "Str" THEN {HcLeaf("lit", n.expr, n.expr.value, elems, calls)}
            ELSE IF n.expr.kind = "Call"
                 THEN {HcLeaf("call", n.expr, <<>>, elems, calls)}
                      \cup JsxLeaves(n.expr, elems, calls)
            ELSE JsxLeaves(n.expr, elems, calls)
      [] n.kind = "JSXElement" -> JsxLeavesOfAll(n.children, elems \cup {n.name}, calls)
      [] n.kind = "Call" ->
            JsxLeavesOfAll(n.args, elems, calls \cup CalledAs(n))
            \cup JsxLeaves(n.callee, elems, calls)
      [] n.kind = "Paren" -> JsxLeaves(n.expr, elems, calls)
      [] n.kind = "Arrow" /\ ~n.block -> JsxLeaves(n.body, elems, calls)
      [] OTHER -> {}

JsxLeavesOfAll(ns, elems, calls) ==
    IF ns = <<>> THEN {}
    ELSE JsxLeaves(Head(ns), elems, calls) \cup JsxLeavesOfAll(Tail(ns), elems, calls)

SourceLeaves == JsxLeavesOfAll(TopExprs, {}, {})

\* the records reported at the position of a leaf
ReportedAt(leaf) == {it \in ItemSet : it.lnum = leaf.line /\ it.col = leaf.col}

\* a.b.c as the characters of the name
RECURSIVE FullName(_)
FullName(name) ==
    IF Len(name) = 1 THEN name[1]
    ELSE name[1] \o <<".">> \o FullName(Tail(name))

ExcludedName(name, set) == FullName(name) \in set \/ name[Len(name)] \in set

\* C12: no record is reported for a JSX text or string-literal child that
\* has, at any depth, an ancestor element whose full name or last name
\* segment is in the excluded set.
C12_NothingInsideExcluded ==
    Served =>
        \A leaf \in SourceLeaves :
            (/\ leaf.kind \in {"text", "lit"}
             /\ \E name \in leaf.elems : ExcludedName(name, Req.exclude_components)) =>
                ReportedAt(leaf) = {}

\* a text two levels below an element N.T, excluded through the last
\* segment of the name only, and not reported
C12_Witness ==
    /\ Served
    /\ Req.exclude_components = {<<"T">>}
    /\ \E leaf \in SourceLeaves :
          /\ leaf.kind = "text"
          /\ leaf.elems = {<<<<"N">>, <<"T">>>>, <<<<"d">>>>}
          /\ module[1].expr.kind = "JSXElement"
          /\ module[1].expr.name = <<<<"N">>, <<"T">>>>
          /\ ReportedAt(leaf) = {}

\* C13: no record is reported for a JSX text or string-literal child inside
\* the arguments of a call made as t(...) or x.t(...), and a JSX child that
\* is itself such a call is not reported as a literal.
C13_NothingInsideTCall ==
    Served =>
        \A leaf \in SourceLeaves :
            /\ (leaf.kind \in {"text", "lit"} /\ "t" \in leaf.calls) => ReportedAt(leaf) = {}
            /\ (leaf.kind = "call" /\ "t" \in CalledAs(leaf.node)) =>
                  \A it \in ReportedAt(leaf) : it.kind # "jsx_literal"

\* a text inside an element passed to i18n.t(...), not reported, in a
\* request that excludes no element of the source
C13_Witness ==
    /\ Served
    /\ module # <<>>
    /\ module[1].expr.kind = "Call"
    /\ module[1].expr.callee.kind = "Member"
    /\ \E leaf \in SourceLeaves :
          /\ leaf.kind = "text"
          /\ leaf.calls = {"t"}
          /\ \A name \in leaf.elems : ~ExcludedName(name, Req.exclude_components)
          /\ StrLen(leaf.value) >= Req.min_length
          /\ ReportedAt(leaf) = {}

\* whitespace runs collapsed to one space, none kept at either end: the
\* text read left to right
RECURSIVE Collapsed(_, _)
Collapsed(text, out) ==
    IF text = <<>>
    THEN (IF out # <<>> /\ out[Len(out)] = " " THEN SubSeq(out, 1, Len(out) - 1) ELSE out)
    ELSE IF Head(text) \in Whitespace
         THEN Collapsed(Tail(text),
                        IF out = <<>> \/ out[Len(out)] = " " THEN out ELSE Append(out, " "))
         ELSE Collapsed(Tail(text), Append(out, Head(text)))

\* some line of the leaf is a line of the requested range
LeafInRange(leaf) ==
    \/ Req.range = None
    \/ \E l \in leaf.line..leaf.end_line :
          Unwrap(Req.range).start_line <= l /\ l <= Unwrap(Req.range).end_line

\* C14: a JSX text in range, under no excluded element and inside no t()
\* call, is reported, as jsx_text with its whitespace-collapsed and trimmed
\* value as text, exactly when the length of that text (in bytes, as the
\* detector counts it) is at least min_length; whitespace-only text is
\* never reported for min_length >= 1, and every reported text is at least
\* min_length long.
C14_TextReportedFromMinLength ==
    Served =>
        /\ \A leaf \in SourceLeaves :
              (/\ leaf.kind = "text"
               /\ LeafInRange(leaf)
               /\ \A name \in leaf.elems : ~ExcludedName(name, Req.exclude_components)
               /\ "t" \notin leaf.calls) =>
                  LET text == Collapsed(leaf.value, <<>>) IN
                  /\ ReportedAt(leaf) =
                        IF StrLen(text) >= Req.min_length
                        THEN {HardcodedItem(leaf.line, leaf.col, leaf.end_line, leaf.node.end_col,
                                            text, "jsx_text")}
                        ELSE {}
                  /\ ((\A i \in 1..Len(leaf.value) : leaf.value[i] \in Whitespace)
                      /\ Req.min_length >= 1) => ReportedAt(leaf) = {}
        /\ \A it \in ItemSet : it.kind = "jsx_text" => StrLen(it.text) >= Req.min_length

\* with min_length = 3, a text written over two lines with runs of
\* whitespace reported as "a b" next to a text "Hi" that is not reported
C14_Witness ==
    /\ Served
    /\ Req.min_length = 3
    /\ \E a, b \in SourceLeaves :
          /\ a.kind = "text" /\ b.kind = "text"
          /\ a.value = <<" ", "a", " ", " ", "b", "\n">>
          /\ \E it \in ReportedAt(a) : it.text = <<"a", " ", "b">>
          /\ b.value = <<"H", "i">>
          /\ LeafInRange(b)
          /\ ReportedAt(b) = {}

\* C15: the returned list is ascending by (lnum, col).
C15_SortedByPosition ==
    Served =>
        \A i \in 1..(Len(Items) - 1) :
            \/ Items[i].lnum < Items[i + 1].lnum
            \/ (Items[i].lnum = Items[i + 1].lnum /\ Items[i].col <= Items[i + 1].col)

\* two records, one for the text of an arrow function that is called and
\* one for a text in the arguments of the call, which the traversal visits
\* first
C15_Witness ==
    /\ Served
    /\ Len(Items) = 2
    /\ module # <<>>
    /\ module[1].expr.kind = "Call"
    /\ module[1].expr.callee.kind = "Paren"
    /\ \E leaf \in JsxLeaves(module[1].expr.callee, {}, {}) : Items[1] \in ReportedAt(leaf)
    /\ \E leaf \in JsxLeavesOfAll(module[1].expr.args, {}, {}) : Items[2] \in ReportedAt(leaf)

(* ======================= the JSON-RPC dispatcher ======================= *)
(* rust/src/main.rs and rust/src/rpc.rs: a request names a method and      *)
(* carries parameters; the response has a result or an error, never both.  *)
INVALID_PARAMS == -32602
METHOD_NOT_FOUND == -32601
INTERNAL_ERROR == -32603

\* Response::success and Response::error; a field that is None is not
\* serialized
ResponseSuccess(result) == [result |-> Some(result), error |-> None]
ResponseError(code) == [result |-> None, error |-> Some([code |-> code])]

\* the arm of Server::dispatch for a method whose function returned r
Answer(r) == IF r.ok THEN ResponseSuccess(r) ELSE ResponseError(INTERNAL_ERROR)

\* Server::dispatch for the three source-analysis methods; params is None
\* when the parameters do not deserialize
dispatch(method, params, m, unclosed) ==
    CASE method = "scan/extract" ->
            IF IsSome(params)
            THEN Answer(extract(m, unclosed, Unwrap(params).fallback_namespace,
                                Unwrap(params).range))
            ELSE ResponseError(INVALID_PARAMS)
      [] method = "scan/translationContextAt" ->
            IF IsSome(params)
            THEN Answer(translation_context_at(m, unclosed, Unwrap(params).row,
                                               Unwrap(params).fallback_namespace))
            ELSE ResponseError(INVALID_PARAMS)
      [] method = "hardcoded/extract" ->
            IF IsSome(params)
            THEN Answer(hardcoded_extract(m, unclosed, Unwrap(params).range,
                                          Unwrap(params).min_length,
                                          Unwrap(params).exclude_components))
            ELSE ResponseError(INVALID_PARAMS)
      [] OTHER -> ResponseError(METHOD_NOT_FOUND)

\* the families of source the server is asked about: hook statements and
\* function bodies, and JSX under t() calls
RpcFamilies == {"ctx", "tcall"}

\* the methods a client may name and the parameters it may send with each
RpcMethods(f) ==
    IF f \in HcFamilies THEN {"hardcoded/extract", "unknown"}
    ELSE {"scan/extract", "scan/translationContextAt"}

RpcParams(f, method, last) ==
    {None} \cup
    (CASE method = "scan/extract" ->
            {Some([fallback_namespace |-> fb, range |-> range]) :
                fb \in Fallbacks(f), range \in Ranges(f)}
       [] method = "scan/translationContextAt" ->
            {Some([row |-> row, fallback_namespace |-> fb]) :
                row \in 0..last, fb \in Fallbacks(f)}
       [] method = "hardcoded/extract" ->
            {Some([range |-> range, min_length |-> min_length,
                   exclude_components |-> exclude_components]) :
                range \in HcRanges(f), min_length \in HcMinLengths(f),
                exclude_components \in HcExcludes(f)}
       [] OTHER -> {})

InitRpc ==
    /\ family \in RpcFamilies
    /\ module = <<>>
    /\ open = FALSE
    /\ cur = 0
    /\ request = None
    /\ tables = None
    /\ response = None
    /\ token = FALSE
    /\ run = None

\* the editor writes the next token of a source of statements
RpcEditStmts == family \notin HcFamilies /\ (AddStmt \/ OpenFn \/ CloseFn)

\* the editor writes the next token of a JSX source
RpcEditJsx == family \in HcFamilies /\ (HcOpen \/ HcWrite \/ HcClose)

\* Server::run: one request with an id is read, dispatched and answered
Dispatch ==
    /\ request = None
    /\ \E method \in RpcMethods(family) :
          \E params \in RpcParams(family, method, cur) :
             /\ request' = Some([method |-> method, params |-> params])
             /\ response' = Some(dispatch(method, params, module, open))
    /\ UNCHANGED <<token, run, family, module, open, cur, tables>>

NextRpc == RpcEditStmts \/ RpcEditJsx \/ Dispatch

SpecRpc == InitRpc /\ [][NextRpc]_vars

AnalysisMethods == {"scan/extract", "scan/translationContextAt", "hardcoded/extract"}

\* C16: a request for scan/extract, scan/translationContextAt or
\* hardcoded/extract about a source that does not parse (a function body or
\* a JSX element or call left unclosed) makes the function return the error
\* and not Ok, and is answered with an error response whose code is
\* INTERNAL_ERROR and which has no result; a source that parses is answered
\* with a result, an empty list of items included.
C16_ParseFailureIsAnError ==
    (IsSome(response) /\ Req.method \in AnalysisMethods /\ IsSome(Req.params)) =>
        LET p == Unwrap(Req.params)
            r == CASE Req.method = "scan/extract" ->
                        extract(module, open, p.fallback_namespace, p.range)
                   [] Req.method = "scan/translationContextAt" ->
                        translation_context_at(module, open, p.row, p.fallback_namespace)
                   [] OTHER ->
                        hardcoded_extract(module, open, p.range, p.min_length,
                                          p.exclude_components)
        IN /\ r.ok = ~open
           /\ open => /\ Unwrap(response).result = None
                      /\ Unwrap(response).error = Some([code |-> INTERNAL_ERROR])
           /\ ~open => /\ Unwrap(response).error = None
                       /\ IsSome(Unwrap(response).result)

\* an unparsable source has been answered with the error, for each method
C16_Witness ==
    /\ IsSome(response)
    /\ open
    /\ module # <<>>
    /\ IsSome(Req.params)
    /\ Req.method = "hardcoded/extract"
    /\ Unwrap(response).result = None
    /\ Unwrap(response).error = Some([code |-> INTERNAL_ERROR])

(* ============================ doctor::diagnose ========================= *)
(* rust/src/doctor.rs: one run analyses the open buffers and the source    *)
(* files of a project against the resource index, polling a cancel token   *)
(* (a file the client creates) between its steps.                          *)

\* str::starts_with, str::ends_with, str::contains
StartsWith(s, p) == Len(p) <= Len(s) /\ SubSeq(s, 1, Len(p)) = p
EndsWith(s, p) == Len(p) <= Len(s) /\ SubSeq(s, Len(s) - Len(p) + 1, Len(s)) = p
ContainsStr(s, p) == \E i \in 1..(Len(s) + 1) : StartsWith(SubSeq(s, i, Len(s)), p)

\* should_ignore_key: a pattern is a substring, anchored by ^ and $
should_ignore_key(key, ignore_patterns) ==
    \E i \in 1..Len(ignore_patterns) :
        LET pattern == ignore_patterns[i] IN
        /\ pattern # <<>>
        /\ LET anchored_start == Head(pattern) = "^"
               anchored_end == pattern[Len(pattern)] = "$"
               start == IF anchored_start THEN 1 ELSE 0
               end == IF anchored_end
                      THEN (IF Len(pattern) >= 1 THEN Len(pattern) - 1 ELSE 0)
                      ELSE Len(pattern)
               needle == SubSeq(pattern, start + 1, end)
           IN IF anchored_start /\ anchored_end THEN key = needle
              ELSE IF anchored_start THEN StartsWith(key, needle)
              ELSE IF anchored_end THEN EndsWith(key, needle)
              ELSE ContainsStr(key, needle)

\* str::find from a position: the index of the first occurrence of marker at
\* or after start (0 when there is none)
RECURSIVE FindFrom(_, _, _)
FindFrom(text, start, marker) ==
    IF start + Len(marker) - 1 > Len(text) THEN 0
    ELSE IF SubSeq(text, start, start + Len(marker) - 1) = marker THEN start
    ELSE FindFrom(text, start + 1, marker)

\* the loop of util::extract_placeholders from position pos
RECURSIVE ScanPlaceholders(_, _, _)
ScanPlaceholders(text, pos, placeholders) ==
    IF pos > Len(text) THEN placeholders
    ELSE IF text[pos] = "{"
    THEN LET double == pos + 1 <= Len(text) /\ text[pos + 1] = "{"
             start == IF double THEN pos + 2 ELSE pos + 1
             end_marker == IF double THEN <<"}", "}">> ELSE <<"}">>
             end_pos == FindFrom(text, start, end_marker)
         IN IF end_pos > 0
            THEN LET name == Trim(SubSeq(text, start, end_pos - 1))
                 IN ScanPlaceholders(text, end_pos + Len(end_marker),
                        IF name # <<>> /\ ~ContainsStr(name, <<" ">>)
                        THEN placeholders \cup {name} ELSE placeholders)
            ELSE ScanPlaceholders(text, pos + 1, placeholders)
    ELSE ScanPlaceholders(text, pos + 1, placeholders)

\* util::extract_placeholders: the names, sorted and without duplicates (a set)
extract_placeholders(text) == ScanPlaceholders(text, 1, {})

placeholder_equal(a, b) == a = b

DoctorIssue(kind, file, key, lnum) ==
    [kind |-> kind, file |-> file, key |-> key, lnum |-> lnum]

FileResult(keys, issues, scan_failed) ==
    [keys |-> keys, issues |-> issues, scan_failed |-> scan_failed]

\* a source text: its tree and whether it breaks off inside a function body
Source(m, unclosed) == [m |-> m, unclosed |-> unclosed]

\* index.get(lang).and_then(|m| m.get(key)).and_then(|e| e.value)
IndexValue(index_data, lang, key) ==
    IF lang \in DOMAIN index_data.index /\ key \in DOMAIN index_data.index[lang]
    THEN index_data.index[lang][key].value
    ELSE None

\* key.split_once(':').map(|(_, path)| path).unwrap_or(key)
KeyPath(key) ==
    LET colon_pos == FindColon(key, 1)
    IN IF colon_pos > 0 THEN SubSeq(key, colon_pos + 1, Len(key)) ELSE key

\* the mismatch issues of one key: one per other language whose value has
\* other placeholders
RECURSIVE MismatchIssues(_, _, _, _, _, _)
MismatchIssues(languages, key, pv, file, params, index_data) ==
    IF languages = <<>> THEN <<>>
    ELSE LET lang == Head(languages)
             other_value == IndexValue(index_data, lang, key)
         IN (IF lang # params.primary_lang /\ IsSome(other_value)
                /\ ~placeholder_equal(extract_placeholders(pv),
                                      extract_placeholders(Unwrap(other_value)))
             THEN <<DoctorIssue("mismatch", file, Some(key), None)>>
             ELSE <<>>)
            \o MismatchIssues(Tail(languages), key, pv, file, params, index_data)

\* the loop of process_source over the items of a file
RECURSIVE ProcessItems(_, _, _, _, _)
ProcessItems(items, file, params, index_data, acc) ==
    IF items = <<>> THEN acc
    ELSE LET item == Head(items)
             key == item.key
         IN IF should_ignore_key(key, params.ignore_patterns)
            THEN ProcessItems(Tail(items), file, params, index_data, acc)
            ELSE LET primary_value == IndexValue(index_data, params.primary_lang, key)
                     raw == item.raw
                     is_missing ==
                         \/ ~IsSome(primary_value)
                         \/ Unwrap(primary_value) = <<>>
                         \/ Unwrap(primary_value) = key
                         \/ (raw # <<>> /\ Unwrap(primary_value) = raw)
                         \/ Unwrap(primary_value) = KeyPath(key)
                     found ==
                         IF is_missing
                         THEN <<DoctorIssue("missing", file, Some(key), Some(item.lnum))>>
                         ELSE MismatchIssues(params.languages, key, Unwrap(primary_value),
                                             file, params, index_data)
                 IN ProcessItems(Tail(items), file, params, index_data,
                                 FileResult(Append(acc.keys, key), acc.issues \o found, FALSE))

\* a scan that never fails
process_source_lenient(source, file, params, index_data) ==
    ProcessItems(ExtractItems(source.m, params.fallback_namespace, None),
                 file, params, index_data, FileResult(<<>>, <<>>, FALSE))

\* process_source: the keys and issues of one source text
process_source(source, file, params, index_data) ==
    LET extracted == extract(source.m, source.unclosed, params.fallback_namespace, None)
    IN IF ~extracted.ok
       THEN FileResult(<<>>, <<DoctorIssue("scan_error", file, None, None)>>, TRUE)
       ELSE ProcessItems(extracted.items, file, params, index_data,
                         FileResult(<<>>, <<>>, FALSE))

\* process_file: a file open in the editor, or unreadable, contributes nothing
process_file(entry, params, index_data) ==
    IF entry.path \in params.open_buf_paths THEN FileResult(<<>>, <<>>, FALSE)
    ELSE IF ~IsSome(entry.source) THEN FileResult(<<>>, <<>>, FALSE)
    ELSE process_source(Unwrap(entry.source), Some(entry.path), params, index_data)

make_result(issues, used_keys_set, cancelled) ==
    [issues |-> issues, used_keys |-> used_keys_set, cancelled |-> cancelled]

\* a token looked for even when no path was given
is_cancelled_any_path(token_path, exists) == exists

\* is_cancelled: the token file exists at the configured, non-empty path
is_cancelled(token_path, exists) ==
    IsSome(token_path) /\ Unwrap(token_path) # <<>> /\ exists

(* --------------------------- the diagnose run -------------------------- *)
BatchSize == 50   \* let batch_size = 50
MaxFiles == 51    \* source files of the largest project
MaxParFiles == 3  \* source files of a project whose chunk is analysed step by step

\* the locals of diagnose when it is entered
Locals ==
    [pc |-> "entry", issues |-> <<>>, used_keys_set |-> {}, has_scan_failures |-> FALSE,
     index_data |-> None, next_buf |-> 1, discovered_entries |-> 0, source_files |-> <<>>,
     processed |-> 0, keys_left |-> {}, next_lang |-> 1, notified |-> <<>>,
     results |-> <<>>, done |-> <<>>]

\* a doctor/progress notification; the counters are an Option
Progress(message, counters) == [message |-> message, counters |-> counters]
Counters(file_processed, file_total) ==
    Some([file_processed |-> file_processed, file_total |-> file_total])

\* the merge of one FileResult into the locals
Merged(r, result) ==
    [r EXCEPT !.has_scan_failures = @ \/ result.scan_failed,
              !.used_keys_set = @ \cup {result.keys[i] : i \in 1..Len(result.keys)},
              !.issues = @ \o result.issues]

RECURSIVE MergedAll(_, _)
MergedAll(r, results) ==
    IF results = <<>> THEN r ELSE MergedAll(Merged(r, Head(results)), Tail(results))

\* the issues, one per index error
ResourceErrors(errors) ==
    [i \in 1..Len(errors) |-> DoctorIssue("resource_error", Some(errors[i].file), None, None)]

\* a chunk that takes every remaining file
Min_rest(a, b) == b

\* source_files.chunks(batch_size): the end of a chunk of at most batch_size files
Min(a, b) == IF a <= b THEN a ELSE b

R == Unwrap(run)
Params == Unwrap(request).params
Disk == Unwrap(request).disk
Running(pc) == IsSome(run) /\ R.pc = pc
is_cancelled_now == is_cancelled(Params.cancel_token_path, token)

\* return Ok(make_result(issues, used_keys_set, cancelled))
Return(r, cancelled) ==
    /\ response' = Some(make_result(r.issues, r.used_keys_set, cancelled))
    /\ run' = Some([r EXCEPT !.pc = "done"])

Goto(r) == run' = Some(r) /\ UNCHANGED response

Frame == UNCHANGED <<family, module, open, cur, request, tables, token>>

\* the client creates the cancel token file
Cancel ==
    /\ ~token
    /\ response = None
    /\ token' = TRUE
    /\ UNCHANGED <<family, module, open, cur, request, tables, response, run>>

\* the poll on entry, the check of the roots and the index build
Entry ==
    /\ Running("entry")
    /\ IF is_cancelled_now THEN Return(R, TRUE)
       ELSE IF Params.roots = <<>>
       THEN Return([R EXCEPT !.issues =
                        Append(@, DoctorIssue("resource_root_missing", None, None, None))],
                   FALSE)
       ELSE Goto([R EXCEPT !.pc = "built", !.index_data = Some(Disk.index_data)])
    /\ Frame

\* the poll after the index build, and the resource errors
Built ==
    /\ Running("built")
    /\ IF is_cancelled_now THEN Return(R, TRUE)
       ELSE Goto([R EXCEPT !.pc = "buffers",
                           !.issues = @ \o ResourceErrors(Unwrap(R.index_data).errors)])
    /\ Frame

\* one turn of the loop over the open buffers
OpenBuffer ==
    /\ Running("buffers")
    /\ R.next_buf <= Len(Params.open_buffers)
    /\ LET open_buf == Params.open_buffers[R.next_buf]
           next == [R EXCEPT !.next_buf = @ + 1]
       IN IF is_cancelled_now THEN Return(R, TRUE)
          ELSE IF open_buf.source = Source(<<>>, FALSE) THEN Goto(next)
          ELSE Goto(Merged(next, process_source(open_buf.source, open_buf.path, Params,
                                                Unwrap(R.index_data))))
    /\ Frame

\* after the last open buffer: the walk of project_root begins
StartWalk ==
    /\ Running("buffers")
    /\ R.next_buf > Len(Params.open_buffers)
    /\ Goto([R EXCEPT !.pc = "walk",
                      !.notified = Append(@, Progress("collecting source files...", None))])
    /\ Frame

\* one walked entry
Walk ==
    /\ Running("walk")
    /\ R.discovered_entries < Len(Disk.entries)
    /\ LET entry == Disk.entries[R.discovered_entries + 1]
           told == IF R.discovered_entries > 0 /\ R.discovered_entries % 500 = 0
                   THEN Append(R.notified, Progress("collecting source files... entries", None))
                   ELSE R.notified
       IN IF is_cancelled_now
          THEN Return([R EXCEPT !.notified =
                          Append(@, Progress("cancelled while collecting files", Counters(0, 0)))],
                      TRUE)
          ELSE Goto([R EXCEPT !.discovered_entries = @ + 1,
                              !.notified = told,
                              !.source_files = IF entry.is_file /\ entry.is_js_ts_file
                                               THEN Append(@, entry) ELSE @])
    /\ Frame

\* after the last entry: the scan of the source files begins
StartScan ==
    /\ Running("walk")
    /\ R.discovered_entries = Len(Disk.entries)
    /\ Goto([R EXCEPT !.pc = "batches",
                      !.notified = Append(@, Progress("scanning files...",
                                                      Counters(0, Len(R.source_files))))])
    /\ Frame

\* one chunk of batch_size files: analysed, then merged in file order
Batch ==
    /\ Running("batches")
    /\ R.processed < Len(R.source_files)
    /\ LET total_files == Len(R.source_files)
           chunk == SubSeq(R.source_files, R.processed + 1,
                           Min(R.processed + BatchSize, total_files))
           results == [i \in 1..Len(chunk) |->
                          process_file(chunk[i], Params, Unwrap(R.index_data))]
           merged == MergedAll(R, results)
       IN IF is_cancelled_now
          THEN Return([R EXCEPT !.notified =
                          Append(@, Progress("cancelled at files",
                                             Counters(R.processed, total_files)))],
                      TRUE)
          ELSE Goto([merged EXCEPT
                        !.processed = @ + Len(chunk),
                        !.notified = Append(@, Progress("analyzing files...",
                                               Counters(R.processed + Len(chunk), total_files)))])
    /\ Frame

\* index.get(&params.primary_lang): the keys of the primary language
PrimaryIndex(index_data) ==
    IF Params.primary_lang \in DOMAIN index_data.index
    THEN Some(index_data.index[Params.primary_lang]) ELSE None

\* after the last chunk: unused-key detection is skipped, or its loop begins
StartUnused ==
    /\ Running("batches")
    /\ R.processed = Len(R.source_files)
    /\ LET primary_index == PrimaryIndex(Unwrap(R.index_data))
       IN IF R.has_scan_failures
          THEN Goto([R EXCEPT !.pc = "drift",
                              !.issues = Append(@, DoctorIssue("unused_skipped", None, None, None))])
          ELSE IF IsSome(primary_index)
          THEN Goto([R EXCEPT !.pc = "unused", !.keys_left = DOMAIN Unwrap(primary_index)])
          ELSE Goto([R EXCEPT !.pc = "drift"])
    /\ Frame

\* one key of the primary index, in the order of the hash map
UnusedKey ==
    /\ Running("unused")
    /\ \E key \in R.keys_left :
          LET entry == Unwrap(PrimaryIndex(Unwrap(R.index_data)))[key]
              next == [R EXCEPT !.keys_left = @ \ {key}]
          IN IF is_cancelled_now THEN Return(R, TRUE)
             ELSE IF should_ignore_key(key, Params.ignore_patterns) THEN Goto(next)
             ELSE IF key \notin R.used_keys_set
             THEN Goto([next EXCEPT !.issues =
                           Append(@, DoctorIssue("unused", entry.file, Some(key), None))])
             ELSE Goto(next)
    /\ Frame

\* a loop over keys has come to its end
LoopExit ==
    /\ IsSome(run)
    /\ R.keys_left = {}
    /\ CASE R.pc = "unused" -> Goto([R EXCEPT !.pc = "drift"])
         [] R.pc = "drift_missing" ->
               LET lang == Params.languages[R.next_lang]
                   index == Unwrap(R.index_data).index
               IN IF lang \in DOMAIN index
                  THEN Goto([R EXCEPT !.pc = "drift_extra", !.keys_left = DOMAIN index[lang]])
                  ELSE Goto([R EXCEPT !.pc = "drift", !.next_lang = @ + 1])
         [] R.pc = "drift_extra" -> Goto([R EXCEPT !.pc = "drift", !.next_lang = @ + 1])
         [] OTHER -> FALSE
    /\ Frame

\* one language of the drift check
DriftLang ==
    /\ Running("drift")
    /\ IsSome(PrimaryIndex(Unwrap(R.index_data)))
    /\ R.next_lang <= Len(Params.languages)
    /\ IF is_cancelled_now THEN Return(R, TRUE)
       ELSE IF Params.languages[R.next_lang] = Params.primary_lang
       THEN Goto([R EXCEPT !.next_lang = @ + 1])
       ELSE Goto([R EXCEPT !.pc = "drift_missing",
                           !.keys_left = DOMAIN Unwrap(PrimaryIndex(Unwrap(R.index_data)))])
    /\ Frame

\* one key of the primary language looked up in the other language
DriftMissing ==
    /\ Running("drift_missing")
    /\ \E key \in R.keys_left :
          LET lang == Params.languages[R.next_lang]
              other_value == IndexValue(Unwrap(R.index_data), lang, key)
              has_value == IsSome(other_value) /\ Unwrap(other_value) # <<>>
              next == [R EXCEPT !.keys_left = @ \ {key}]
          IN IF is_cancelled_now THEN Return(R, TRUE)
             ELSE IF should_ignore_key(key, Params.ignore_patterns) THEN Goto(next)
             ELSE IF ~has_value
             THEN Goto([next EXCEPT !.issues =
                           Append(@, DoctorIssue("drift_missing", None, Some(key), None))])
             ELSE Goto(next)
    /\ Frame

\* one key of the other language looked up in the primary language
DriftExtra ==
    /\ Running("drift_extra")
    /\ \E key \in R.keys_left :
          LET next == [R EXCEPT !.keys_left = @ \ {key}]
          IN IF is_cancelled_now THEN Return(R, TRUE)
             ELSE IF should_ignore_key(key, Params.ignore_patterns) THEN Goto(next)
             ELSE IF key \notin DOMAIN Unwrap(PrimaryIndex(Unwrap(R.index_data)))
             THEN Goto([next EXCEPT !.issues =
                           Append(@, DoctorIssue("drift_extra", None, Some(key), None))])
             ELSE Goto(next)
    /\ Frame

\* the end of diagnose: Ok(make_result(issues, used_keys_set, false))
Finish ==
    /\ Running("drift")
    /\ \/ ~IsSome(PrimaryIndex(Unwrap(R.index_data)))
       \/ R.next_lang > Len(Params.languages)
    /\ Return(R, FALSE)
    /\ Frame

(* ------------------------- projects and requests ----------------------- *)
\* a walked entry: a directory, a file that is no JS/TS source, or a source
\* file with its text (None when it cannot be read)
Entry_(path, is_file, js, source) ==
    [path |-> path, is_file |-> is_file, is_js_ts_file |-> js, source |-> source]
DirEntry == Entry_(<<"src">>, FALSE, FALSE, None)
JsonFile == Entry_(<<"locales", "en.json">>, TRUE, FALSE, None)
SourceFile(i, source) == Entry_(<<"src", i>>, TRUE, TRUE, source)

\* t("k"); the key it uses is f:k under the fallback namespace f
GoodSource == Source(<<TCall(Ident("t", 0), <<StrLit(<<"k">>, 0)>>)>>, FALSE)
\* function f() {
BrokenSource == Source(<<FnDecl(<<>>, 0, 0)>>, TRUE)
EmptySource == Source(<<>>, FALSE)
\* t("j")
OtherSource == Source(<<TCall(Ident("t", 0), <<StrLit(<<"j">>, 0)>>)>>, FALSE)

OpenBuf(path, source) == [path |-> path, source |-> source, lang |-> "typescript"]

ResourceItem(value, file) == [value |-> Some(value), file |-> Some(file)]
KeyK == <<"f", ":", "k">>
KeyJ == <<"f", ":", "j">>
KeyX == <<"f", ":", "x">>
IndexResult(index, errors) == [index |-> index, errors |-> errors]

\* the resource indexes a build may produce
Indexes(f) ==
    IF f = "index"
    THEN { IndexResult("en" :> (KeyK :> ResourceItem(<<"{", "a", "}">>, "en.json")
                                @@ KeyJ :> ResourceItem(<<"w">>, "en.json"))
                       @@ "ja" :> (KeyK :> ResourceItem(<<"{", "{", " ", "b", "}", "}">>, "ja.json")
                                   @@ KeyX :> ResourceItem(<<"x">>, "ja.json")),
                       <<>>),
           IndexResult("en" :> (KeyK :> ResourceItem(<<"k">>, "en.json"))
                       @@ "ja" :> (KeyK :> ResourceItem(<<>>, "ja.json")),
                       <<[file |-> "de.json"]>>),
           IndexResult("ja" :> (KeyK :> ResourceItem(<<"{", "a", "}", "{", "c">>, "ja.json")),
                       <<>>) }
    ELSE { IndexResult("en" :> (KeyK :> ResourceItem(<<"v">>, "en.json")
                                @@ KeyJ :> ResourceItem(<<"w">>, "en.json")),
                       <<>>) }

\* the source files of a project of n files, the p-th of which is broken
Files(n, p) ==
    [i \in 1..n |-> SourceFile(i, Some(IF i = p THEN BrokenSource ELSE GoodSource))]

\* what the walk of project_root finds
Projects(f) ==
    CASE f = "batch" ->
            {<<DirEntry>> \o Files(n, p) : n \in {MaxFiles - 1, MaxFiles}, p \in 0..MaxFiles}
      [] f = "par" ->
            UNION { {[i \in 1..n |-> SourceFile(i, Some(k[i]))] :
                        k \in [1..n -> {GoodSource, BrokenSource, OtherSource}]}
                    : n \in 0..MaxParFiles }
      [] f = "buffers" ->
            { <<DirEntry>>,
              <<DirEntry, SourceFile(1, Some(GoodSource))>>,
              <<DirEntry, SourceFile(1, Some(BrokenSource))>>,
              <<DirEntry, SourceFile(1, None)>>,
              <<DirEntry, JsonFile, SourceFile(1, Some(BrokenSource)),
                SourceFile(2, Some(GoodSource))>> }
      [] OTHER ->
            { <<DirEntry, SourceFile(1, Some(GoodSource))>>,
              <<DirEntry, SourceFile(1, Some(BrokenSource))>> }

OpenBuffers(f) ==
    IF f = "buffers"
    THEN { <<>>,
           <<OpenBuf(Some(<<"src", 1>>), GoodSource)>>,
           <<OpenBuf(Some(<<"src", 1>>), BrokenSource)>>,
           <<OpenBuf(None, BrokenSource)>>,
           <<OpenBuf(Some(<<"src", 3>>), EmptySource), OpenBuf(Some(<<"src", 1>>), GoodSource)>>,
           <<OpenBuf(Some(<<"src", 3>>), BrokenSource), OpenBuf(Some(<<"src", 1>>), GoodSource)>> }
    ELSE { <<>> }

DiagnoseParams(f) ==
    [roots : IF f = "buffers" THEN {<<>>, <<"locales">>} ELSE {<<"locales">>},
     primary_lang : {"en"},
     languages : IF f = "index" THEN {<<"en">>, <<"en", "ja">>, <<"ja", "de", "en">>}
                 ELSE {<<"en">>},
     fallback_namespace : {<<"f">>},
     ignore_patterns : IF f = "index" THEN {<<>>, <<<<>>, <<"^", "f", ":", "j">>>>, <<<<"x", "$">>>>}
                       ELSE {<<>>},
     open_buf_paths : IF f = "buffers" THEN {{}, {<<"src", 1>>}} ELSE {{}},
     open_buffers : OpenBuffers(f),
     cancel_token_path : IF f = "index" THEN {None, Some(<<>>), Some(<<"c">>)}
                         ELSE {Some(<<"c">>)}]

DoctorFamilies == {"batch", "buffers", "index"}

InitDoctor ==
    /\ family \in DoctorFamilies
    /\ module = <<>>
    /\ open = FALSE
    /\ cur = 0
    /\ request = None
    /\ tables = None
    /\ response = None
    /\ token = FALSE
    /\ run = None

\* the client calls doctor/diagnose for a project as it is on disk
Diagnose ==
    /\ request = None
    /\ \E params \in DiagnoseParams(family), entries \in Projects(family),
          index_data \in Indexes(family) :
          request' = Some([params |-> params,
                           disk |-> [entries |-> entries, index_data |-> index_data]])
    /\ run' = Some(Locals)
    /\ UNCHANGED <<family, module, open, cur, tables, response, token>>

NextDoctor ==
    \/ Cancel \/ Diagnose \/ Entry \/ Built \/ OpenBuffer \/ StartWalk \/ Walk \/ StartScan
    \/ Batch \/ StartUnused \/ UnusedKey \/ LoopExit \/ DriftLang \/ DriftMissing
    \/ DriftExtra \/ Finish

SpecDoctor == InitDoctor /\ [][NextDoctor]_vars

(* ------------------------- diagnose: properties ------------------------ *)
Result == Unwrap(response)
IssuesOfKind(kind) == {i \in 1..Len(Result.issues) : Result.issues[i].kind = kind}

\* the file names (an Option each) of the broken sources the run has analysed:
\* non-empty open buffers the loop has passed, and source files of the chunks
\* done that are readable and not open in the editor
BrokenAnalysed ==
    {Params.open_buffers[i].path :
        i \in {j \in 1..(R.next_buf - 1) : Params.open_buffers[j].source.unclosed}}
    \cup
    {Some(R.source_files[i].path) :
        i \in {j \in 1..R.processed :
                  /\ R.source_files[j].path \notin Params.open_buf_paths
                  /\ IsSome(R.source_files[j].source)
                  /\ Unwrap(R.source_files[j].source).unclosed}}

ScanErrorFor(file) ==
    \E i \in IssuesOfKind("scan_error") : Result.issues[i].file = file

\* C17 as stated: in every run in which the analysis of a source failed, the
\* result has the scan_error of that file, exactly one unused_skipped issue
\* and no unused issue.
C17_AsStated ==
    (IsSome(response) /\ BrokenAnalysed # {}) =>
        /\ \A file \in BrokenAnalysed : ScanErrorFor(file)
        /\ Cardinality(IssuesOfKind("unused_skipped")) = 1
        /\ IssuesOfKind("unused") = {}

\* C17: in every run in which the analysis of a source failed, whichever
\* buffer or chunk it was in, the result has the scan_error of that file and
\* no unused issue; it has exactly one unused_skipped issue when the run was
\* not cancelled, and at most one when it was.
C17_ScanFailureDisablesUnused ==
    (IsSome(response) /\ BrokenAnalysed # {}) =>
        /\ \A file \in BrokenAnalysed : ScanErrorFor(file)
        /\ IssuesOfKind("unused") = {}
        /\ Cardinality(IssuesOfKind("unused_skipped")) <= 1
        /\ ~Result.cancelled => Cardinality(IssuesOfKind("unused_skipped")) = 1

\* a run to the end over two chunks, the broken file in the second one
C17_Witness ==
    /\ IsSome(response)
    /\ ~Result.cancelled
    /\ \E i \in (BatchSize + 1)..Len(R.source_files) :
          /\ Unwrap(R.source_files[i].source).unclosed
          /\ ScanErrorFor(Some(R.source_files[i].path))
    /\ Cardinality(IssuesOfKind("unused_skipped")) = 1

\* the run stands at a poll of the cancel token: on entry, after the index
\* build, before an open buffer, a walked entry or a chunk, or in a turn of
\* the unused and drift loops
AtCheckpoint ==
    /\ IsSome(run)
    /\ \/ R.pc \in {"entry", "built"}
       \/ R.pc = "buffers" /\ R.next_buf <= Len(Params.open_buffers)
       \/ R.pc = "walk" /\ R.discovered_entries < Len(Disk.entries)
       \/ R.pc = "batches" /\ R.processed < Len(R.source_files)
       \/ R.pc \in {"unused", "drift_missing", "drift_extra"} /\ R.keys_left # {}
       \/ /\ R.pc = "drift"
          /\ Params.primary_lang \in DOMAIN Unwrap(R.index_data).index
          /\ R.next_lang <= Len(Params.languages)

\* the token file exists at the path the request names
TokenVisible ==
    /\ token
    /\ IsSome(Params.cancel_token_path)
    /\ Unwrap(Params.cancel_token_path) # <<>>

\* C18: a step of diagnose taken at a checkpoint while the token is visible
\* returns at once with cancelled = true and the issues and used keys as they
\* were before the step, no file of a further batch analysed (on entry: no
\* issue at all); every other step that returns returns cancelled = false,
\* whether or not the token exists by then; after the return nothing of the
\* run changes.
C18_CancelAtCheckpoints ==
    [][(IsSome(run) /\ run' # run) =>
          /\ R.pc # "done"
          /\ IF AtCheckpoint /\ TokenVisible
             THEN /\ response' = Some([issues |-> R.issues, used_keys |-> R.used_keys_set,
                                       cancelled |-> TRUE])
                  /\ Unwrap(run').pc = "done"
                  /\ Unwrap(run').processed = R.processed
                  /\ R.pc = "entry" => Unwrap(response').issues = <<>>
             ELSE IsSome(response') =>
                     /\ ~Unwrap(response').cancelled
                     /\ Unwrap(response').issues = Unwrap(run').issues
                     /\ Unwrap(run').pc = "done"]_vars

\* a run cancelled between its two batches: the result has what the first
\* batch found, and the second batch was not analysed
C18_Witness ==
    /\ IsSome(response)
    /\ Result.cancelled
    /\ R.processed = BatchSize
    /\ Len(R.source_files) > BatchSize
    /\ Result.issues # <<>>
    /\ BrokenAnalysed # {}

(* ================= constants declared inside JSX =================== *)
\* sources whose statements are JSX elements with arrow functions in their
\* attributes and children
InitJsx ==
    /\ family = "jsx"
    /\ module = <<>>
    /\ open = FALSE
    /\ cur = 0
    /\ request = None
    /\ tables = None
    /\ response = None
    /\ token = FALSE
    /\ run = None

NextJsx == AddStmt \/ OpenFn \/ CloseFn \/ Extract

SpecJsx == InitJsx /\ [][NextJsx]_vars

\* the arrow functions with a block body written in the attributes and the
\* children of the JSX element a statement consists of
ArrowsInJsx(stmt) ==
    IF stmt.kind = "Expr" /\ stmt.expr.kind = "JSXElement"
    THEN {stmt.expr.attrs[i] : i \in {j \in 1..Len(stmt.expr.attrs) :
                                         stmt.expr.attrs[j].kind = "Arrow"}}
         \cup
         {stmt.expr.children[i].expr :
             i \in {j \in 1..Len(stmt.expr.children) :
                       /\ stmt.expr.children[j].kind = "JSXExprContainer"
                       /\ stmt.expr.children[j].expr.kind = "Arrow"}}
    ELSE {}

\* C20: a const K = "x" declared in an arrow body inside a JSX attribute or
\* child is in the ConstantTable, and the call t(K) of that body yields a
\* record with raw text "x" on its line.
C20_ConstsInsideJsxArePropagated ==
    Served =>
        \A i \in 1..Len(Leaves) :
            \A arrow \in ArrowsInJsx(Leaves[i].stmt) :
                LET decl == arrow.body[1].decls[1]
                IN /\ decl.name.sym \in DOMAIN Consts
                   /\ \E j \in 1..Len(Items) :
                         /\ Items[j].lnum = arrow.line
                         /\ Items[j].raw = Unwrap(decl.init).value

(* ===================== one source, analysed twice =================== *)
(* The server analyses many sources one after another.  What a call built  *)
(* (its ConstantTable and scopes) is in `tables` when the next call is     *)
(* made, and stays there as the second call found it; `response` lists the *)
(* answers to the calls about the edited source in the order given.        *)

\* a collector that starts from the table the previous call built
ConstCollector_keep(previous) ==
    IF IsSome(previous) THEN Unwrap(previous).consts ELSE EmptyConsts

\* ConstCollector::new: the table starts empty in every call
ConstCollector_new(previous) == EmptyConsts

\* scan::extract, called in a process whose previous call built `previous`
extract_in(previous, m, unclosed, fb, range) ==
    LET parsed == parse_module(m, unclosed) IN
    IF IsSome(parsed)
    THEN LET consts == ConstVisitStmts(Unwrap(parsed), ConstCollector_new(previous))
             scopes == collect_scopes_precise(Unwrap(parsed), consts)
         IN [ok |-> TRUE,
             items |-> extract_calls(Unwrap(parsed), consts, scopes, fb, range)]
    ELSE [ok |-> FALSE, items |-> <<>>]

TwiceFamilies == {"const", "order"}

InitTwice ==
    /\ family \in TwiceFamilies
    /\ module = <<>>
    /\ open = FALSE
    /\ cur = 0
    /\ request = None
    /\ tables = None
    /\ response = None
    /\ token = FALSE
    /\ run = None

\* the first call about the source
FirstExtract == family \notin HcFamilies /\ Extract
FirstHcExtract == family \in HcFamilies /\ HcExtract

\* between the two calls the server analyses another source
OtherExtract ==
    /\ family \notin HcFamilies
    /\ Len(response) = 1
    /\ \E s \in Stmts(family, 0) : tables' = Some(Tables(<<s>>))
    /\ tables' # tables
    /\ UNCHANGED <<token, run, family, module, open, cur, request, response>>

\* the same scan::extract request is served again
ExtractAgain ==
    /\ family \notin HcFamilies
    /\ Len(response) = 1
    /\ response' = Append(response, extract_in(tables, module, open,
                                               Req.fallback_namespace, Req.range))
    /\ UNCHANGED <<token, run, family, module, open, cur, request, tables>>

\* the same hardcoded::extract request is served again
HcExtractAgain ==
    /\ family \in HcFamilies
    /\ Len(response) = 1
    /\ response' = Append(response, hardcoded_extract(module, open, Req.range, Req.min_length,
                                                      Req.exclude_components))
    /\ UNCHANGED <<token, run, family, module, open, cur, request, tables>>

NextTwice ==
    \/ RpcEditStmts \/ RpcEditJsx \/ FirstExtract \/ FirstHcExtract
    \/ OtherExtract \/ ExtractAgain \/ HcExtractAgain

SpecTwice == InitTwice /\ [][NextTwice]_vars

Chunk(r) ==
    SubSeq(r.source_files, r.processed + 1, Min(r.processed + BatchSize, Len(r.source_files)))

\* a collect that keeps the order in which the analyses finished
collect_in_completion_order(done, results) ==
    [k \in 1..Len(done) |-> Unwrap(results[done[k]])]

\* collect::<Vec<_>>() of an indexed parallel iterator: the order of the chunk
collect(done, results) == [i \in 1..Len(done) |-> Unwrap(results[i])]

InitPar ==
    /\ family = "par"
    /\ module = <<>>
    /\ open = FALSE
    /\ cur = 0
    /\ request = None
    /\ tables = None
    /\ response = None
    /\ token = FALSE
    /\ run = None

\* the poll at the head of a chunk; the analyses of its files are handed out
BatchStart ==
    /\ Running("batches")
    /\ R.processed < Len(R.source_files)
    /\ IF is_cancelled_now
       THEN Return([R EXCEPT !.notified =
                       Append(@, Progress("cancelled at files",
                                          Counters(R.processed, Len(R.source_files))))],
                   TRUE)
       ELSE Goto([R EXCEPT !.pc = "analysing",
                           !.results = [i \in 1..Len(Chunk(R)) |-> None],
                           !.done = <<>>])
    /\ Frame

\* a worker finishes process_file for one file of the chunk
Analyse ==
    /\ Running("analysing")
    /\ \E i \in 1..Len(R.results) :
          /\ R.results[i] = None
          /\ Goto([R EXCEPT !.results[i] =
                                Some(process_file(Chunk(R)[i], Params, Unwrap(R.index_data))),
                            !.done = Append(@, i)])
    /\ Frame

\* every analysis of the chunk has finished: the merge loop and the progress
BatchMerge ==
    /\ Running("analysing")
    /\ Len(R.done) = Len(R.results)
    /\ LET merged == MergedAll(R, collect(R.done, R.results))
       IN Goto([merged EXCEPT
                   !.pc = "batches",
                   !.results = <<>>,
                   !.done = <<>>,
                   !.processed = @ + Len(R.results),
                   !.notified = Append(@, Progress("analyzing files...",
                                          Counters(R.processed + Len(R.results),
                                                   Len(R.source_files))))])
    /\ Frame

NextPar ==
    \/ Cancel \/ Diagnose \/ Entry \/ Built \/ StartWalk \/ Walk \/ StartScan
    \/ BatchStart \/ Analyse \/ BatchMerge \/ StartUnused \/ UnusedKey \/ LoopExit
    \/ DriftLang \/ Finish

SpecPar == InitPar /\ [][NextPar]_vars

\* what the chunk contributes when its files are analysed one after the other
RECURSIVE InFileOrder(_, _)
InFileOrder(r, files) ==
    IF files = <<>> THEN r
    ELSE InFileOrder(Merged(r, process_file(Head(files), Params, Unwrap(r.index_data))),
                     Tail(files))

Outcome(r) == <<r.issues, r.used_keys_set, r.has_scan_failures>>

\* C21: while the files of a chunk are being analysed, in whatever order, the
\* issues, the used keys and the scan-failure flag stay as they were, and the
\* merge that follows the last analysis leaves them as an analysis of the
\* files one after the other, in file order, would
C21_BatchOrderIndependent ==
    [][(IsSome(run) /\ IsSome(run') /\ R.pc = "analysing") =>
          IF Unwrap(run').pc = "analysing"
          THEN /\ Outcome(Unwrap(run')) = Outcome(R)
               /\ run' # run => Len(R.done) < Len(R.results)
          ELSE /\ Unwrap(run').pc = "batches"
               /\ Len(R.done) = Len(R.results)
               /\ Outcome(Unwrap(run')) = Outcome(InFileOrder(R, Chunk(R)))]_vars

\* a chunk of three files, two of them broken, whose analyses all finished,
\* the last file first
C21_Witness ==
    /\ Running("analysing")
    /\ R.done = <<3, 2, 1>>
    /\ Cardinality({i \in 1..3 : Unwrap(R.results[i]).scan_failed}) >= 2
    /\ Unwrap(R.results[2]).issues # Unwrap(R.results[3]).issues

(* ------------------- diagnose: unused keys and their users ---------------- *)
\* the keys of the translation calls a source contains
KeysOf(source) ==
    LET result == process_source(source, None, Params, Disk.index_data)
    IN {result.keys[i] : i \in 1..Len(result.keys)}

\* the keys used by a discovered JS/TS source file or by an open buffer
KeysInProject ==
    UNION ({IF IsSome(Disk.entries[i].source) /\ Disk.entries[i].is_file
               /\ Disk.entries[i].is_js_ts_file
            THEN KeysOf(Unwrap(Disk.entries[i].source)) ELSE {}
            : i \in 1..Len(Disk.entries)}
           \cup {KeysOf(Params.open_buffers[i].source) : i \in 1..Len(Params.open_buffers)})

\* C29: a key reported unused is used by no discovered source file and by no
\* open buffer, whether or not a file is listed in open_buf_paths
C29_UnusedOnlyWhenNoFileUsesKey ==
    (IsSome(response) /\ IsSome(request)) =>
        \A i \in IssuesOfKind("unused") : Unwrap(Result.issues[i].key) \notin KeysInProject

(* ------------------- diagnose: the progress notifications ---------------- *)
\* the counters of the notifications sent so far that carry counters, in order
RECURSIVE CountersOf(_)
CountersOf(notified) ==
    IF notified = <<>> THEN <<>>
    ELSE IF IsSome(Head(notified).counters)
    THEN <<Unwrap(Head(notified).counters)>> \o CountersOf(Tail(notified))
    ELSE CountersOf(Tail(notified))

Sent == CountersOf(R.notified)

ProgressCounters ==
    IsSome(run) =>
        /\ \A i \in 1..Len(Sent) : Sent[i].file_processed <= Sent[i].file_total
        /\ \A i \in 1..(Len(Sent) - 1) :
              /\ Sent[i].file_processed <= Sent[i + 1].file_processed
              /\ Sent[i + 1].file_processed <= Sent[i].file_processed + BatchSize
        /\ (IsSome(response) /\ ~Result.cancelled /\ Sent # <<>>) =>
              Sent[Len(Sent)].file_processed = Sent[Len(Sent)].file_total

\* C30: in the notifications of a run that carry counters file_processed is at
\* most file_total, never decreases and grows by at most batch_size from one
\* to the next; the last one of a run that was not cancelled has
\* file_processed = file_total; and once the response exists, it is the only
\* one and no further notification is sent
C30_ProgressMonotoneBeforeResponse ==
    /\ []ProgressCounters
    /\ [][IsSome(response) => (response' = response /\ IsSome(run') /\
                               Unwrap(run').notified = R.notified)]_vars

\* a run over 51 files that was not cancelled: two chunks, of 50 files and of 1
C30_Witness ==
    /\ IsSome(response)
    /\ IsSome(run)
    /\ ~Result.cancelled
    /\ Len(Sent) = 3
    /\ Sent[2].file_processed = BatchSize
    /\ Sent[3].file_processed = BatchSize + 1

(* ------------- the context query against the extracted namespace --------- *)
\* the namespace scan::extract assigns to a translation call whose colon-free
\* first argument lies on lnum: CallVisitor::resolve_namespace over the scopes
\* of the same source
NamespaceOfCallAt(lnum, fallback_namespace) ==
    resolve_namespace(<<"k">>, lnum, Scopes, fallback_namespace)[2]

\* C26: the namespace of the context returned for a row is the namespace
\* extract gives a colon-free translation call on that row
C26_ContextNamespaceMatchesExtract ==
    Served => Ctx.namespace = NamespaceOfCallAt(Req.row, Req.fallback_namespace)

(* ----------------------------- resolve::compute --------------------------- *)
MaxItems == 2   \* items of the longest resolve/compute request

ScanItemInput(key, raw, namespace) == [key |-> key, raw |-> raw, namespace |-> namespace]
ResourceItemInput(value, file) == [value |-> value, file |-> file]
HoverValue(value, file, missing) == [value |-> value, file |-> file, missing |-> missing]

\* a value that may equal the key itself but not the key path
is_missing_no_key_path(value, key, raw) ==
    \/ ~IsSome(value)
    \/ Unwrap(value) = <<>>
    \/ Unwrap(value) = raw
    \/ Unwrap(value) = key

\* resolve::is_missing
is_missing(value, key, raw) ==
    IF ~IsSome(value) THEN TRUE
    ELSE LET v == Unwrap(value)
             colon_pos == FindColon(key, 1)
         IN IF v = <<>> THEN TRUE
            ELSE IF v = raw THEN TRUE
            ELSE IF v = key THEN TRUE
            ELSE IF colon_pos > 0 /\ v = SubSeq(key, colon_pos + 1, Len(key)) THEN TRUE
            ELSE FALSE

\* params.index.get(lang).and_then(|m| m.get(key))
IndexEntry(index, lang, key) ==
    IF lang \in DOMAIN index /\ key \in DOMAIN index[lang] THEN Some(index[lang][key]) ELSE None

\* entry.and_then(|e| e.value.as_deref())
EntryValue(entry) == IF IsSome(entry) THEN Unwrap(entry).value ELSE None
EntryFile(entry) == IF IsSome(entry) THEN Unwrap(entry).file ELSE None

\* the languages other than primary, in the order of params.languages
RECURSIVE Other(_, _)
Other(languages, primary) ==
    IF languages = <<>> THEN <<>>
    ELSE IF Head(languages) # primary
    THEN <<Head(languages)>> \o Other(Tail(languages), primary)
    ELSE Other(Tail(languages), primary)

\* the status "\u{2260}", written in ASCII
Localized == "=/="

\* the loop of compute over compare_langs
RECURSIVE CompareLoop(_, _, _, _, _)
CompareLoop(params, item, primary_value, langs, acc) ==
    IF langs = <<>> THEN acc
    ELSE LET lang == Head(langs)
             entry == IndexEntry(params.index, lang, item.key)
             value == EntryValue(entry)
             missing == is_missing(value, item.key, item.raw)
             seen == [acc EXCEPT !.values =
                         (lang :> HoverValue(value, EntryFile(entry), missing)) @@ @]
             next ==
                 IF missing
                 THEN [seen EXCEPT !.any_missing = TRUE, !.missing_langs = Append(@, lang)]
                 ELSE IF IsSome(primary_value) /\ IsSome(value)
                 THEN LET localized == Unwrap(value) # Unwrap(primary_value)
                      IN [seen EXCEPT
                             !.any_localized = @ \/ localized,
                             !.localized_langs = IF localized THEN Append(@, lang) ELSE @,
                             !.compare_values = Append(@, <<lang, Unwrap(value)>>)]
                 ELSE seen
         IN CompareLoop(params, item, primary_value, Tail(langs), next)

\* the languages of compare_values whose placeholders differ from the base
RECURSIVE MismatchLangs(_, _)
MismatchLangs(base_placeholders, compare_values) ==
    IF compare_values = <<>> THEN <<>>
    ELSE (IF ~placeholder_equal(base_placeholders,
                                extract_placeholders(Head(compare_values)[2]))
          THEN <<Head(compare_values)[1]>> ELSE <<>>)
         \o MismatchLangs(base_placeholders, Tail(compare_values))

OrEmpty(value) == IF IsSome(value) THEN Unwrap(value) ELSE <<>>
NonEmpty(langs) == IF langs = <<>> THEN None ELSE Some(langs)

\* one turn of the loop of compute over params.items
ResolveItem(params, item) ==
    LET primary == params.primary_lang
        display_lang == IF IsSome(params.current_lang) THEN Unwrap(params.current_lang)
                        ELSE primary
        primary_entry == IndexEntry(params.index, primary, item.key)
        primary_value == EntryValue(primary_entry)
        display_entry == IndexEntry(params.index, display_lang, item.key)
        display_value == IF IsSome(EntryValue(display_entry)) THEN EntryValue(display_entry)
                         ELSE primary_value
        missing_primary == is_missing(primary_value, item.key, item.raw)
        acc == CompareLoop(params, item, primary_value, Other(params.languages, primary),
                   [values |-> primary :> HoverValue(primary_value, EntryFile(primary_entry),
                                                     missing_primary),
                    any_missing |-> FALSE, any_localized |-> FALSE, missing_langs |-> <<>>,
                    localized_langs |-> <<>>, compare_values |-> <<>>])
        mismatch_langs == IF missing_primary THEN <<>>
                          ELSE MismatchLangs(extract_placeholders(OrEmpty(primary_value)),
                                             acc.compare_values)
        status == IF missing_primary THEN "×"
                  ELSE IF mismatch_langs # <<>> THEN "!"
                  ELSE IF acc.any_missing THEN "?"
                  ELSE IF acc.any_localized THEN Localized
                  ELSE "="
    IN [key |-> item.key,
        text |-> OrEmpty(display_value),
        status |-> status,
        hover |-> [key |-> item.key, namespace |-> Some(item.namespace),
                   primary_lang |-> primary, display_lang |-> display_lang,
                   lang_order |-> <<primary>> \o Other(params.languages, primary),
                   values |-> acc.values,
                   missing_langs |-> NonEmpty(acc.missing_langs),
                   localized_langs |-> NonEmpty(acc.localized_langs),
                   mismatch_langs |-> NonEmpty(mismatch_langs)]]

\* resolve::compute
compute(params) ==
    [resolved |-> [i \in 1..Len(params.items) |-> ResolveItem(params, params.items[i])]]

\* the vocabulary of resolve/compute requests: the key n:k written as r, and
\* the key k without a namespace
ItemInputs ==
    { ScanItemInput(<<"n", ":", "k">>, <<"r">>, <<"n">>),
      ScanItemInput(<<"k">>, <<"r">>, <<"f">>) }

SeqsUpTo(S, n) == UNION {[1..k -> S] : k \in 1..n}

\* what the index holds for a language: nothing at all, no entry for the
\* key, an entry without value, or an entry with a value
IndexChoices ==
    {<<"nolang">>, <<"nokey">>, <<"entry", None>>}
    \cup {<<"entry", Some(v)>> :
            v \in { <<>>, <<"r">>, <<"k">>, <<"n", ":", "k">>, <<"v">>,
                    <<"{", "a", "}">>, <<"{", "{", "a", "}", "}">>, <<"{", "b", "}">> }}

IndexOf(choice) ==
    [lang \in {l \in DOMAIN choice : choice[l][1] # "nolang"} |->
        IF choice[lang][1] = "nokey" THEN <<>>
        ELSE [key \in {<<"n", ":", "k">>, <<"k">>} |->
                 ResourceItemInput(choice[lang][2], Some(lang))]]

\* the requests with at most n items
ComputeParams(n) ==
    { [items |-> items, primary_lang |-> "en", languages |-> languages,
       index |-> IndexOf(choice), current_lang |-> current_lang] :
      items \in SeqsUpTo(ItemInputs, n),
      languages \in {<<"en">>, <<"en", "ja">>, <<"ja", "en", "de">>, <<"de", "ja">>},
      choice \in [{"en", "ja", "de"} -> IndexChoices],
      current_lang \in {None, Some("ja")} }

InitResolve ==
    /\ family = "resolve"
    /\ module = <<>>
    /\ open = FALSE
    /\ cur = 0
    /\ request = None
    /\ tables = None
    /\ response = None
    /\ token = FALSE
    /\ run = None

\* the client calls resolve/compute
Compute ==
    /\ request = None
    /\ \E params \in ComputeParams(MaxItems) :
          /\ request' = Some(params)
          /\ response' = Some(compute(params))
    /\ UNCHANGED <<family, module, open, cur, tables, token, run>>

NextResolve == Compute

SpecResolve == InitResolve /\ [][NextResolve]_vars

\* the value the index holds for the key of item in lang, if any
ValueIn(lang, item) ==
    IF lang \in DOMAIN Req.index /\ item.key \in DOMAIN Req.index[lang]
    THEN Req.index[lang][item.key].value ELSE None

\* missing: absent, empty, or the raw text, the key, or the key after its first ':'
Missing(value, item) ==
    \/ value = None
    \/ Unwrap(value) \in {<<>>, item.raw, item.key}
    \/ \E p \in 1..Len(item.key) :
          /\ item.key[p] = ":"
          /\ \A q \in 1..(p - 1) : item.key[q] # ":"
          /\ Unwrap(value) = SubSeq(item.key, p + 1, Len(item.key))

CompareLangs == {Req.languages[i] : i \in 1..Len(Req.languages)} \ {Req.primary_lang}

StatusByPriority(item) ==
    LET pv == ValueIn(Req.primary_lang, item) IN
    IF Missing(pv, item) THEN "×"
    ELSE IF \E l \in CompareLangs :
               /\ ~Missing(ValueIn(l, item), item)
               /\ extract_placeholders(Unwrap(ValueIn(l, item)))
                    # extract_placeholders(Unwrap(pv))
    THEN "!"
    ELSE IF \E l \in CompareLangs : Missing(ValueIn(l, item), item) THEN "?"
    ELSE IF \E l \in CompareLangs : ValueIn(l, item) # pv THEN Localized
    ELSE "="

\* C22: every item gets the one status its values give it by the priority
\* missing primary value, placeholder mismatch, missing compare value,
\* differing compare value, equal
C22_StatusByPriority ==
    (IsSome(response) /\ IsSome(request)) =>
        /\ Len(Unwrap(response).resolved) = Len(Req.items)
        /\ \A i \in 1..Len(Req.items) :
              Unwrap(response).resolved[i].status = StatusByPriority(Req.items[i])

\* an item whose primary value is its key path, next to one whose primary
\* value is its key
C22_Witness ==
    /\ IsSome(response)
    /\ IsSome(request)
    /\ Len(Req.items) = 2
    /\ Req.items[1].key = <<"n", ":", "k">>
    /\ ValueIn("en", Req.items[1]) = Some(<<"k">>)
    /\ Unwrap(response).resolved[1].status = "×"
    /\ Req.items[2].key = <<"k">>
    /\ Unwrap(response).resolved[2].status = "×"

(* -------------------------- rpc: reading messages ------------------------- *)
MaxReads == 3   \* read_line outcomes of the longest input

Request(jsonrpc, id, method, params, source) ==
    [jsonrpc |-> jsonrpc, id |-> id, method |-> method, params |-> params, source |-> source]

\* the texts that serde_json reads as a Request, each written as one token of
\* a line, and the Request each one deserializes to; params is None where the
\* parameters do not fit the method, source is the text the parameters carry
JsonRequests ==
    "I1" :> Request("2.0", Some(1), "initialize", None, EmptySource)
    @@ "In" :> Request("2.0", None, "initialize", None, EmptySource)
    @@ "Iv" :> Request("1.0", Some(2), "initialize", None, EmptySource)
    @@ "Nv" :> Request("1.0", None, "initialize", None, EmptySource)
    @@ "S2" :> Request("2.0", Some(2), "shutdown", None, EmptySource)
    @@ "Sn" :> Request("2.0", None, "shutdown", None, EmptySource)
    @@ "U1" :> Request("2.0", Some(1), "unknown", None, EmptySource)
    @@ "E1" :> Request("2.0", Some(1), "scan/extract",
                       Some([fallback_namespace |-> <<"f">>, range |-> None]), GoodSource)
    @@ "P2" :> Request("2.0", Some(2), "scan/extract", None, GoodSource)
    @@ "B1" :> Request("2.0", Some(1), "scan/extract",
                       Some([fallback_namespace |-> <<"f">>, range |-> None]), BrokenSource)

\* a whitespace-only line given to the JSON parser
parse_message_line_untrimmed(line) ==
    IF line = <<>> THEN [ok |-> TRUE, request |-> None]
    ELSE IF Len(line) = 1 /\ line[1] \in DOMAIN JsonRequests
    THEN [ok |-> TRUE, request |-> Some(JsonRequests[line[1]])]
    ELSE [ok |-> FALSE, request |-> None]

\* rpc::parse_message_line: Ok(None) for a blank line, Ok(Some(request)), or
\* the error of serde_json::from_str
parse_message_line(line) ==
    LET trimmed == Trim(line) IN
    IF trimmed = <<>> THEN [ok |-> TRUE, request |-> None]
    ELSE IF Len(trimmed) = 1 /\ trimmed[1] \in DOMAIN JsonRequests
    THEN [ok |-> TRUE, request |-> Some(JsonRequests[trimmed[1]])]
    ELSE [ok |-> FALSE, request |-> None]

\* the outcomes of BufRead::read_line
Line(text) == [ok |-> TRUE, line |-> text]
ReadErr(kind) == [ok |-> FALSE, kind |-> kind]

\* Result<Option<Request>> and the number of read_line outcomes consumed
ReadResult(result, message, pos) == [result |-> result, request |-> message, pos |-> pos]

\* rpc::read_message_from_reader, from the outcome after pos; past the last
\* outcome read_line returns Ok(0)
RECURSIVE read_message_from_reader(_, _)
read_message_from_reader(reader, pos) ==
    IF pos >= Len(reader) THEN ReadResult("eof", None, pos)
    ELSE LET read == reader[pos + 1] IN
         IF ~read.ok
         THEN CASE read.kind = "Interrupted" -> read_message_from_reader(reader, pos + 1)
                [] read.kind = "BrokenPipe" -> ReadResult("eof", None, pos + 1)
                [] read.kind = "WouldBlock" -> read_message_from_reader(reader, pos + 1)
                [] OTHER -> ReadResult("error", None, pos + 1)
         ELSE LET parsed == parse_message_line(read.line) IN
              IF ~parsed.ok THEN ReadResult("error", None, pos + 1)
              ELSE IF IsSome(parsed.request)
              THEN ReadResult("request", parsed.request, pos + 1)
              ELSE read_message_from_reader(reader, pos + 1)

ReaderEvents ==
    { Line(<<"\n">>), Line(<<" ", " ", "\n">>), Line(<<"I1", "\n">>), Line(<<" ", "S2", "\n">>),
      Line(<<"{", "\n">>),
      ReadErr("Interrupted"), ReadErr("BrokenPipe"), ReadErr("WouldBlock"), ReadErr("Other") }

SeqsFrom0(S, n) == UNION {[1..k -> S] : k \in 0..n}

InitReader ==
    /\ family = "reader"
    /\ module = <<>>
    /\ open = FALSE
    /\ cur = 0
    /\ request = None
    /\ tables = None
    /\ response = None
    /\ token = FALSE
    /\ run \in {Some([reader |-> reader, pos |-> 0, from |-> 0]) :
                   reader \in SeqsFrom0(ReaderEvents, MaxReads)}

\* one call of read_message_from_reader on the reader as the calls before
\* left it; no call follows an end of input
ReadMessage ==
    /\ IsSome(run)
    /\ IF IsSome(response) THEN Unwrap(response).result # "eof" ELSE TRUE
    /\ LET read == read_message_from_reader(R.reader, R.pos)
       IN /\ response' = Some(read)
          /\ run' = Some([R EXCEPT !.from = R.pos, !.pos = read.pos])
    /\ UNCHANGED <<family, module, open, cur, request, tables, token>>

NextReader == ReadMessage

SpecReader == InitReader /\ [][NextReader]_vars

\* a line of whitespace only
Blank(read) == read.ok /\ \A i \in 1..Len(read.line) : read.line[i] \in Whitespace
\* read_line outcomes the call passes over
Skipped(read) == Blank(read) \/ (~read.ok /\ read.kind \in {"Interrupted", "WouldBlock"})
\* the position of the first outcome after from that is not passed over
FirstKept(reader, from) ==
    IF \E k \in (from + 1)..Len(reader) : ~Skipped(reader[k])
    THEN CHOOSE k \in (from + 1)..Len(reader) :
            /\ ~Skipped(reader[k])
            /\ \A j \in (from + 1)..(k - 1) : Skipped(reader[j])
    ELSE 0
\* the tokens of a line that are not whitespace
Tokens(line) == SelectSeq(line, LAMBDA c : c \notin Whitespace)

\* C23: a call returns the request of the first line that is not blank (or
\* the parse error when that line is not a request), end of input when no
\* such line is left or the read before it failed with BrokenPipe; reads
\* that failed with Interrupted are repeated, and the call consumes nothing
\* beyond the line it returns
C23_FirstNonBlankLine ==
    (IsSome(run) /\ IsSome(response)) =>
        LET k == FirstKept(R.reader, R.from)
            read == Unwrap(response)
        IN IF k = 0 THEN read.result = "eof" /\ R.pos = Len(R.reader)
           ELSE /\ R.pos = k
                /\ IF ~R.reader[k].ok
                   THEN read.result = IF R.reader[k].kind = "BrokenPipe" THEN "eof" ELSE "error"
                   ELSE IF Len(Tokens(R.reader[k].line)) = 1
                           /\ Tokens(R.reader[k].line)[1] \in DOMAIN JsonRequests
                   THEN /\ read.result = "request"
                        /\ read.request = Some(JsonRequests[Tokens(R.reader[k].line)[1]])
                   ELSE read.result = "error"

\* a whitespace-only line, an interrupted read, then a request with leading
\* blanks, which the call returns
C23_Witness ==
    /\ IsSome(run)
    /\ IsSome(response)
    /\ R.reader = <<Line(<<" ", " ", "\n">>), ReadErr("Interrupted"), Line(<<" ", "S2", "\n">>)>>
    /\ R.from = 0
    /\ Unwrap(response).result = "request"
    /\ Unwrap(Unwrap(response).request).method = "shutdown"

(* ------------------------------- Server::run ------------------------------ *)
INVALID_REQUEST == -32600
MaxLines == 2   \* lines of the longest input of the server

\* Response::success and Response::error carry the id of the request
Response(id, body) == [id |-> id, result |-> body.result, error |-> body.error]

\* the server after a request: its flag, whether the process has exited, and
\* the response handed back to run or sent by dispatch itself
Dispatched(initialized, exited, answer) ==
    [initialized |-> initialized, exited |-> exited, response |-> answer]

\* the arms of Server::dispatch for the methods other than initialize and
\* shutdown, tabulated over the requests of the vocabulary
Arms ==
    [message \in {JsonRequests[t] : t \in DOMAIN JsonRequests} |->
        dispatch(message.method, message.params, message.source.m, message.source.unclosed)]

\* a shutdown that is answered without leaving the loop
Server_dispatch_no_exit(initialized, message) ==
    CASE message.method = "initialize" ->
            Dispatched(TRUE, FALSE, Response(message.id, ResponseSuccess("core")))
      [] message.method = "shutdown" ->
            Dispatched(initialized, FALSE, Response(message.id, ResponseSuccess("null")))
      [] OTHER ->
            Dispatched(initialized, FALSE, Response(message.id, Arms[message]))

\* Server::dispatch: initialize sets the flag, shutdown sends its response
\* and exits the process, every other method is answered from its arm
Server_dispatch(initialized, message) ==
    CASE message.method = "initialize" ->
            Dispatched(TRUE, FALSE, Response(message.id, ResponseSuccess("core")))
      [] message.method = "shutdown" ->
            Dispatched(initialized, TRUE, Response(message.id, ResponseSuccess("null")))
      [] OTHER ->
            Dispatched(initialized, FALSE, Response(message.id, Arms[message]))

ServerLines ==
    {Line(<<"\n">>), Line(<<"{", "\n">>)} \cup {Line(<<t, "\n">>) : t \in DOMAIN JsonRequests}

InitServer ==
    /\ family = "server"
    /\ module = <<>>
    /\ open = FALSE
    /\ cur = 0
    /\ request = None
    /\ tables = None
    /\ response = None
    /\ token = FALSE
    /\ run = None

\* Server::new and the start of run, on the lines the client will have written
\* to stdin before it closes it
Server_new ==
    /\ run = None
    /\ \E reader \in SeqsFrom0(ServerLines, MaxLines) :
          run' = Some([reader |-> reader, pos |-> 0, initialized |-> FALSE,
                       state |-> "running", sent |-> <<>>, dispatched |-> <<>>])
    /\ UNCHANGED <<family, module, open, cur, request, tables, response, token>>

\* one turn of the loop of Server::run: the server as the turn leaves it
Server_run(server) ==
    LET read == read_message_from_reader(server.reader, server.pos)
        next == [server EXCEPT !.pos = read.pos]
    IN IF read.result = "eof" THEN [next EXCEPT !.state = "eof"]
       ELSE IF read.result = "error" THEN next
       ELSE LET message == Unwrap(read.request) IN
            IF message.jsonrpc # "2.0"
            THEN [next EXCEPT !.sent =
                     IF IsSome(message.id)
                     THEN Append(@, Response(message.id, ResponseError(INVALID_REQUEST)))
                     ELSE @]
            ELSE IF ~IsSome(message.id) THEN next
            ELSE LET after == Server_dispatch(server.initialized, message)
                 IN [next EXCEPT !.initialized = after.initialized,
                                 !.state = IF after.exited THEN "exit" ELSE @,
                                 !.sent = Append(@, after.response),
                                 !.dispatched = Append(@, message)]

\* the loop of run takes its next turn
Serve ==
    /\ IsSome(run)
    /\ R.state = "running"
    /\ run' = Some(Server_run(R))
    /\ UNCHANGED <<family, module, open, cur, request, tables, response, token>>

NextServer == Server_new \/ Serve

\* the loop of run goes on as long as the process runs
SpecServer == InitServer /\ [][NextServer]_vars /\ WF_vars(Serve)

\* the requests of the first n lines, in order; a line that is blank or not
\* a request contributes none
RECURSIVE RequestsOf(_, _)
RequestsOf(reader, n) ==
    IF n = 0 THEN <<>>
    ELSE RequestsOf(reader, n - 1)
         \o (IF Len(Tokens(reader[n].line)) = 1
                /\ Tokens(reader[n].line)[1] \in DOMAIN JsonRequests
             THEN <<JsonRequests[Tokens(reader[n].line)[1]]>> ELSE <<>>)

\* the code of the answer a request is due: 0 for a success
CodeDue(message) ==
    IF message.jsonrpc # "2.0" THEN INVALID_REQUEST
    ELSE IF message.method \in {"initialize", "shutdown"} THEN 0
    ELSE IF message.method \notin AnalysisMethods THEN METHOD_NOT_FOUND
    ELSE IF ~IsSome(message.params) THEN INVALID_PARAMS
    ELSE IF message.source.unclosed THEN INTERNAL_ERROR
    ELSE 0

\* the ids and codes of the answers due to a sequence of requests, in order
RECURSIVE Due(_)
Due(messages) ==
    IF messages = <<>> THEN <<>>
    ELSE (IF IsSome(Head(messages).id) THEN <<<<Head(messages).id, CodeDue(Head(messages))>>>>
          ELSE <<>>) \o Due(Tail(messages))

CodeOf(answer) == IF IsSome(answer.error) THEN Unwrap(answer.error).code ELSE 0
Answered == [i \in 1..Len(R.sent) |-> <<R.sent[i].id, CodeOf(R.sent[i])>>]

\* a request the loop hands to dispatch
ToDispatch(message) == message.jsonrpc = "2.0" /\ IsSome(message.id)
IsShutdown(message) == ToDispatch(message) /\ message.method = "shutdown"

\* C25 as stated: when the server has stopped, every request of the input
\* that has an id has been answered exactly once, in order
C25_AsStated ==
    (IsSome(run) /\ R.state # "running") => Answered = Due(RequestsOf(R.reader, Len(R.reader)))

ServerSafe ==
    IsSome(run) =>
        LET read == RequestsOf(R.reader, R.pos) IN
        /\ Answered = Due(read)
        /\ R.dispatched = SelectSeq(read, ToDispatch)
        /\ R.initialized = (\E i \in 1..Len(read) :
                               ToDispatch(read[i]) /\ read[i].method = "initialize")
        /\ (\E i \in 1..Len(read) : IsShutdown(read[i])) =>
              /\ R.state = "exit"
              /\ IsShutdown(read[Len(read)])
              /\ \A i \in 1..(Len(read) - 1) : ~IsShutdown(read[i])
        /\ R.state = "exit" => \E i \in 1..Len(read) : IsShutdown(read[i])
        /\ R.state = "eof" => R.pos = Len(R.reader)

\* C25: the responses sent are, in the order of the requests, one per request
\* with an id among the lines read so far, with the id and the code due to
\* it; only requests with an id and version "2.0" are dispatched and set the
\* initialized flag; the server reads every line unless it has dispatched a
\* shutdown, after which it reads no more; and the server comes to a stop
C25_OneResponsePerRequestUntilShutdown ==
    /\ []ServerSafe
    /\ IsSome(run) ~> (IsSome(run) /\ R.state # "running")

\* a request whose handler failed has been answered, and the shutdown that
\* follows it has stopped the server
C25_Witness ==
    /\ IsSome(run)
    /\ R.state = "exit"
    /\ R.pos = 2
    /\ Answered = <<<<Some(1), INTERNAL_ERROR>>, <<Some(2), 0>>>>

(* --------------------------- scan::extract_resource ----------------------- *)
\* JsonLeafScanner over the characters of source: idx is the position of the
\* next character, ok turns false at the first Err, after which nothing is read
\* body with its parameter bound to the value of v, which is computed once
Bind(v, body(_)) == CHOOSE r \in {body(x) : x \in {v}} : TRUE

JsonLeaf(path, lnum, col, end_col) ==
    [path |-> path, lnum |-> lnum, col |-> col, end_col |-> end_col]

JsonLeafScanner_new == [idx |-> 1, line |-> 0, col |-> 0, leaves |-> <<>>, ok |-> TRUE]

Failed(s) == [s EXCEPT !.ok = FALSE]

peek_char(source, s) == IF s.idx <= Len(source) THEN Some(source[s.idx]) ELSE None

next_char(source, s) ==
    IF s.idx > Len(source) THEN s
    ELSE [s EXCEPT !.idx = @ + 1,
                   !.line = IF source[s.idx] = "\n" THEN @ + 1 ELSE @,
                   !.col = IF source[s.idx] = "\n" THEN 0 ELSE @ + 1]

consume_char(source, s, target) ==
    IF peek_char(source, s) = Some(target) THEN next_char(source, s) ELSE s

expect_char(source, s, target) ==
    IF ~s.ok THEN s
    ELSE IF peek_char(source, s) = Some(target) THEN next_char(source, s) ELSE Failed(s)

RECURSIVE expect_literal(_, _, _)
expect_literal(source, s, literal) ==
    IF ~s.ok \/ literal = <<>> THEN s
    ELSE IF peek_char(source, s) # Some(Head(literal)) THEN Failed(next_char(source, s))
    ELSE expect_literal(source, next_char(source, s), Tail(literal))

RECURSIVE skip_ws(_, _)
skip_ws(source, s) ==
    IF s.ok /\ s.idx <= Len(source) /\ source[s.idx] \in {" ", "\n", "\r", "\t"}
    THEN skip_ws(source, next_char(source, s)) ELSE s

Digits == {"0", "1", "2", "3", "4", "5", "6", "7", "8", "9"}
HexDigits == Digits \cup {"a", "b", "c", "d", "e", "f", "A", "B", "C", "D", "E", "F"}
\* the characters written after a backslash and what they stand for
Escapes ==
    "\"" :> "\"" @@ "\\" :> "\\" @@ "/" :> "/" @@ "b" :> "\\b" @@ "f" :> "\\f"
    @@ "n" :> "\n" @@ "r" :> "\r" @@ "t" :> "\t"

StringEnd(s, out, start_line, start_col) ==
    [s |-> s, out |-> out, start_line |-> start_line, start_col |-> start_col, end_col |-> s.col]

\* the loop of parse_string after the opening quote
RECURSIVE StringLoop(_, _, _, _, _)
StringLoop(source, s, out, start_line, start_col) ==
    IF s.idx > Len(source) THEN StringEnd(Failed(s), out, start_line, start_col)
    ELSE Bind(next_char(source, s), LAMBDA s1 :
         LET ch == source[s.idx] IN
         IF ch = "\"" THEN StringEnd(s1, out, start_line, start_col)
         ELSE IF ch # "\\" THEN StringLoop(source, s1, Append(out, ch), start_line, start_col)
         ELSE IF s1.idx > Len(source) THEN StringEnd(Failed(s1), out, start_line, start_col)
         ELSE Bind(next_char(source, s1), LAMBDA s2 :
              LET escaped == source[s1.idx] IN
              IF escaped \in DOMAIN Escapes
              THEN StringLoop(source, s2, Append(out, Escapes[escaped]), start_line, start_col)
              ELSE IF escaped # "u"
              THEN StringEnd(Failed(s2), out, start_line, start_col)
              ELSE IF s2.idx + 3 > Len(source)
                      \/ \E i \in 0..3 : source[s2.idx + i] \notin HexDigits
              THEN StringEnd(Failed(s2), out, start_line, start_col)
              ELSE StringLoop(source,
                              next_char(source, next_char(source,
                                  next_char(source, next_char(source, s2)))),
                              out \o <<"\\u">> \o SubSeq(source, s2.idx, s2.idx + 3),
                              start_line, start_col)))

\* parse_string: the text, the line and column of the opening quote and the
\* column after the closing quote
parse_string(source, s) ==
    Bind(expect_char(source, s, "\""), LAMBDA s1 :
         IF ~s1.ok THEN StringEnd(s1, <<>>, s.line, s.col)
         ELSE StringLoop(source, s1, <<>>, s.line, s.col))

RECURSIVE SkipDigits(_, _)
SkipDigits(source, s) ==
    IF s.idx <= Len(source) /\ source[s.idx] \in Digits
    THEN SkipDigits(source, next_char(source, s)) ELSE s

IsDigitAt(source, s) == s.idx <= Len(source) /\ source[s.idx] \in Digits

\* the integer part of a number: 0, or digits
IntegerPart(source, s1) ==
    IF peek_char(source, s1) = Some("0") THEN next_char(source, s1)
    ELSE IF IsDigitAt(source, s1) THEN SkipDigits(source, s1)
    ELSE Failed(s1)

\* the fraction of a number, if any: a dot and digits
FractionPart(source, s2) ==
    IF ~s2.ok THEN s2
    ELSE IF peek_char(source, s2) # Some(".") THEN s2
    ELSE Bind(next_char(source, s2), LAMBDA dot :
              IF ~IsDigitAt(source, dot) THEN Failed(dot) ELSE SkipDigits(source, dot))

\* the exponent of a number, if any: e or E, a sign if any, and digits
ExponentPart(source, s3) ==
    IF ~s3.ok THEN s3
    ELSE IF peek_char(source, s3) \notin {Some("e"), Some("E")} THEN s3
    ELSE Bind(next_char(source, s3), LAMBDA sign :
         Bind(IF peek_char(source, sign) \in {Some("+"), Some("-")}
              THEN next_char(source, sign) ELSE sign, LAMBDA digits :
              IF ~IsDigitAt(source, digits) THEN Failed(digits)
              ELSE SkipDigits(source, digits)))

parse_number(source, s) ==
    Bind(consume_char(source, s, "-"), LAMBDA s1 :
    Bind(IntegerPart(source, s1), LAMBDA s2 :
    Bind(FractionPart(source, s2), LAMBDA s3 : ExponentPart(source, s3))))

push_leaf(s, path, lnum, col, end_col) ==
    [s EXCEPT !.leaves = Append(@, JsonLeaf(path, lnum, col, end_col))]

RECURSIVE parse_object(_, _, _, _)
RECURSIVE ObjectLoop(_, _, _, _)
RECURSIVE parse_object_value(_, _, _, _, _, _, _)
RECURSIVE parse_array(_, _, _)
RECURSIVE ArrayLoop(_, _, _)
RECURSIVE parse_array_value(_, _, _)
RECURSIVE parse_array_value_emitting(_, _, _)

parse_object(source, s, path, skip_emit) ==
    Bind(skip_ws(source, expect_char(source, s, "{")), LAMBDA s1 :
         IF ~s1.ok THEN s1
         ELSE IF peek_char(source, s1) = Some("}") THEN next_char(source, s1)
         ELSE ObjectLoop(source, s1, path, skip_emit))

\* the loop of parse_object over the members
ObjectLoop(source, s, path, skip_emit) ==
    Bind(parse_string(source, s), LAMBDA key :
    Bind(skip_ws(source, expect_char(source, skip_ws(source, key.s), ":")), LAMBDA s1 :
    Bind(IF ~s1.ok THEN s1
         ELSE skip_ws(source, parse_object_value(source, s1, Append(path, key.out),
                                                 skip_emit, key.start_line,
                                                 key.start_col, key.end_col)), LAMBDA s2 :
         IF ~s2.ok THEN s2
         ELSE IF peek_char(source, s2) = Some(",")
         THEN ObjectLoop(source, skip_ws(source, next_char(source, s2)), path, skip_emit)
         ELSE expect_char(source, s2, "}"))))

parse_object_value(source, s, path, skip_emit, key_line, key_col, key_end_col) ==
    LET ch == peek_char(source, s)
        emit(after) == IF after.ok /\ ~skip_emit
                       THEN push_leaf(after, path, key_line, key_col, key_end_col)
                       ELSE after
    IN IF ch = Some("{") THEN parse_object(source, s, path, skip_emit)
       ELSE IF ch = Some("[") THEN parse_array(source, s, path)
       ELSE IF ch = Some("\"") THEN emit(parse_string(source, s).s)
       ELSE IF ch = Some("-") \/ IsDigitAt(source, s) THEN emit(parse_number(source, s))
       ELSE IF ch = Some("t") THEN emit(expect_literal(source, s, <<"t", "r", "u", "e">>))
       ELSE IF ch = Some("f") THEN emit(expect_literal(source, s, <<"f", "a", "l", "s", "e">>))
       ELSE IF ch = Some("n") THEN emit(expect_literal(source, s, <<"n", "u", "l", "l">>))
       ELSE Failed(s)

parse_array(source, s, path) ==
    Bind(skip_ws(source, expect_char(source, s, "[")), LAMBDA s1 :
         IF ~s1.ok THEN s1
         ELSE IF peek_char(source, s1) = Some("]") THEN next_char(source, s1)
         ELSE ArrayLoop(source, s1, path))

\* the loop of parse_array over the elements
ArrayLoop(source, s, path) ==
    Bind(skip_ws(source, parse_array_value(source, s, path)), LAMBDA s1 :
         IF ~s1.ok THEN s1
         ELSE IF peek_char(source, s1) = Some(",")
         THEN ArrayLoop(source, skip_ws(source, next_char(source, s1)), path)
         ELSE expect_char(source, s1, "]"))

\* an object inside an array scanned like any other object
parse_array_value_emitting(source, s, path) ==
    LET ch == peek_char(source, s)
    IN IF ch = Some("{") THEN parse_object(source, s, path, FALSE)
       ELSE IF ch = Some("[") THEN parse_array(source, s, path)
       ELSE IF ch = Some("\"") THEN parse_string(source, s).s
       ELSE IF ch = Some("-") \/ IsDigitAt(source, s) THEN parse_number(source, s)
       ELSE IF ch = Some("t") THEN expect_literal(source, s, <<"t", "r", "u", "e">>)
       ELSE IF ch = Some("f") THEN expect_literal(source, s, <<"f", "a", "l", "s", "e">>)
       ELSE IF ch = Some("n") THEN expect_literal(source, s, <<"n", "u", "l", "l">>)
       ELSE Failed(s)

parse_array_value(source, s, path) ==
    LET ch == peek_char(source, s)
    IN IF ch = Some("{") THEN parse_object(source, s, path, TRUE)
       ELSE IF ch = Some("[") THEN parse_array(source, s, path)
       ELSE IF ch = Some("\"") THEN parse_string(source, s).s
       ELSE IF ch = Some("-") \/ IsDigitAt(source, s) THEN parse_number(source, s)
       ELSE IF ch = Some("t") THEN expect_literal(source, s, <<"t", "r", "u", "e">>)
       ELSE IF ch = Some("f") THEN expect_literal(source, s, <<"f", "a", "l", "s", "e">>)
       ELSE IF ch = Some("n") THEN expect_literal(source, s, <<"n", "u", "l", "l">>)
       ELSE Failed(s)

\* JsonLeafScanner::parse
JsonLeafScanner_parse(source) ==
    Bind(skip_ws(source, parse_object(source, skip_ws(source, JsonLeafScanner_new),
                                      <<>>, FALSE)), LAMBDA s2 :
         IF ~s2.ok THEN s2
         ELSE IF IsSome(peek_char(source, s2)) THEN Failed(s2)
         ELSE s2)

ResourceScanItem(key, raw, namespace, lnum, col, end_col) ==
    [key |-> key, raw |-> raw, namespace |-> namespace, lnum |-> lnum, col |-> col,
     end_col |-> end_col, fallback |-> FALSE]

\* the loop of extract_resource over the leaves
RECURSIVE LeafItems(_, _)
LeafItems(leaves, params) ==
    IF leaves = <<>> THEN <<>>
    ELSE LET leaf == Head(leaves)
             leaf_in_range == IF IsSome(params.range)
                         THEN leaf.lnum >= Unwrap(params.range).start_line
                              /\ leaf.lnum <= Unwrap(params.range).end_line
                         ELSE TRUE
             rest == LeafItems(Tail(leaves), params)
         IN IF ~leaf_in_range THEN rest
            ELSE IF params.is_root
            THEN IF Len(leaf.path) < 2 THEN rest
                 ELSE LET namespace == leaf.path[1]
                          raw == Join(Tail(leaf.path), <<".">>)
                      IN IF raw = <<>> THEN rest
                         ELSE <<ResourceScanItem(namespace \o <<":">> \o raw, raw, namespace,
                                                 leaf.lnum, leaf.col, leaf.end_col)>> \o rest
            ELSE IF leaf.path = <<>> THEN rest
            ELSE LET raw == Join(leaf.path, <<".">>)
                 IN <<ResourceScanItem(params.namespace \o <<":">> \o raw, raw,
                                       params.namespace, leaf.lnum, leaf.col,
                                       leaf.end_col)>> \o rest

\* scan::extract_resource: Ok with the items, or the error of the scanner
extract_resource(params) ==
    Bind(JsonLeafScanner_parse(params.source), LAMBDA scanned :
         IF scanned.ok THEN [ok |-> TRUE, items |-> LeafItems(scanned.leaves, params)]
         ELSE [ok |-> FALSE, items |-> <<>>])

\* JSON documents as trees, and their text in two layouts
JObj(members) == [kind |-> "object", members |-> members]
JArr(elems) == [kind |-> "array", elems |-> elems]
JScalar(text) == [kind |-> "scalar", text |-> text]
JStr(text) == JScalar(<<"\"">> \o text \o <<"\"">>)

RECURSIVE Render(_, _)
RECURSIVE RenderAll(_, _, _)
\* the texts of the parts of an object or array, separated by a comma and sep
RenderAll(parts, sep, is_members) ==
    IF parts = <<>> THEN <<>>
    ELSE (IF is_members
          THEN <<"\"">> \o Head(parts)[1] \o <<"\"", ":">> \o Render(Head(parts)[2], sep)
          ELSE Render(Head(parts), sep))
         \o (IF Len(parts) > 1 THEN <<",">> \o sep ELSE <<>>)
         \o RenderAll(Tail(parts), sep, is_members)

Render(value, sep) ==
    CASE value.kind = "object" ->
            <<"{">> \o sep \o RenderAll(value.members, sep, TRUE) \o sep \o <<"}">>
      [] value.kind = "array" -> <<"[">> \o RenderAll(value.elems, sep, FALSE) \o <<"]">>
      [] OTHER -> value.text

JsonDocs ==
    { JObj(<<>>),
      JObj(<<<<<<"a">>, JStr(<<"v">>)>>,
             <<<<"b">>, JObj(<<<<<<"c">>, JScalar(<<"1">>)>>, <<<<"d">>, JArr(<<>>)>>>>)>>>>),
      JObj(<<<<<<"n">>, JObj(<<<<<<>>, JStr(<<"v">>)>>,
                               <<<<"x">>, JObj(<<<<<<"y">>, JScalar(<<"t", "r", "u", "e">>)>>>>)>>>>)>>,
             <<<<"k">>, JScalar(<<"n", "u", "l", "l">>)>>>>),
      JObj(<<<<<<"n">>, JArr(<<JObj(<<<<<<"a">>, JStr(<<"v">>)>>>>), JStr(<<"w">>),
                               JArr(<<JObj(<<<<<<"b">>, JScalar(<<"0">>)>>>>)>>),
                               JScalar(<<"-", "1", ".", "5", "e", "2">>)>>)>>,
             <<<<"m">>, JObj(<<<<<<"c">>, JStr(<<"v">>)>>, <<<<"e">>, JObj(<<>>)>>>>)>>>>) }

\* texts that are no JSON object: an array, trailing characters, a member
\* without value, an object that is not closed
BrokenResources ==
    { <<"[", "\"", "a", "\"", "]">>,
      <<"{", "}", "x">>,
      <<"{", "\"", "a", "\"", ":", "}">>,
      <<"{", "\"", "a", "\"", ":", "1">> }

ResourceSources ==
    {Render(doc, sep) : doc \in JsonDocs, sep \in {<<>>, <<"\n", " ">>}} \cup BrokenResources

InitResource ==
    /\ family = "resource"
    /\ module = <<>>
    /\ open = FALSE
    /\ cur = 0
    /\ request = None
    /\ tables = None
    /\ response = None
    /\ token = FALSE
    /\ run = None

\* the client calls scan/extractResource
ExtractResource ==
    /\ request = None
    /\ \E source \in ResourceSources, is_root \in BOOLEAN, range \in Ranges("range") :
          LET params == [source |-> source, namespace |-> <<"f">>, is_root |-> is_root,
                         range |-> range]
          IN /\ request' = Some(params)
             /\ response' = Some(extract_resource(params))
    /\ UNCHANGED <<family, module, open, cur, tables, token, run>>

NextResource == ExtractResource

SpecResource == InitResource /\ [][NextResource]_vars

\* the paths of the scalar members of a document that lie in no array, in
\* the order of the text
RECURSIVE ObjectPaths(_, _)
ObjectPaths(members, path) ==
    IF members = <<>> THEN <<>>
    ELSE LET key == Head(members)[1]
             value == Head(members)[2]
         IN (CASE value.kind = "object" -> ObjectPaths(value.members, Append(path, key))
               [] value.kind = "array" -> <<>>
               [] OTHER -> <<Append(path, key)>>)
            \o ObjectPaths(Tail(members), path)

TheDoc == CHOOSE doc \in JsonDocs : \E sep \in {<<>>, <<"\n", " ">>} : Render(doc, sep) = Req.source

\* the position in the text of column col of line lnum
RECURSIVE TextIndex(_, _, _, _)
TextIndex(source, i, lnum, col) ==
    IF lnum = 0 THEN i + col
    ELSE TextIndex(source, i + 1, IF source[i] = "\n" THEN lnum - 1 ELSE lnum, col)

\* item locates the text "segment" of its own key
LocatesKey(item, segment) ==
    LET i == TextIndex(Req.source, 1, item.lnum, item.col)
    IN /\ item.end_col = item.col + Len(segment) + 2
       /\ SubSeq(Req.source, i, i + Len(segment) + 2) = <<"\"">> \o segment \o <<"\"", ":">>

InRequestedRange(lnum) ==
    IsSome(Req.range) => Unwrap(Req.range).start_line <= lnum /\ lnum <= Unwrap(Req.range).end_line

\* the items of the whole text, whatever the range of the request
AllItems == extract_resource([Req EXCEPT !.range = None]).items

\* what the items of the whole text have to be for the kept paths
ItemsFor(paths) ==
    /\ Len(AllItems) = Len(paths)
    /\ \A i \in 1..Len(paths) :
          LET ns == IF Req.is_root THEN paths[i][1] ELSE Req.namespace
              raw == Join(IF Req.is_root THEN Tail(paths[i]) ELSE paths[i], <<".">>)
          IN /\ AllItems[i].key = ns \o <<":">> \o raw
             /\ AllItems[i].raw = raw
             /\ AllItems[i].namespace = ns
             /\ LocatesKey(AllItems[i], paths[i][Len(paths[i])])
    /\ \A i \in 1..(Len(AllItems) - 1) :
          \/ AllItems[i].lnum < AllItems[i + 1].lnum
          \/ AllItems[i].lnum = AllItems[i + 1].lnum /\ AllItems[i].col < AllItems[i + 1].col
    /\ Items = SelectSeq(AllItems, LAMBDA item : InRequestedRange(item.lnum))

\* C24 as stated: one item per scalar member outside arrays, those with a
\* path of one segment being dropped for is_root
C24_AsStated ==
    (IsSome(response) /\ Served) =>
        ItemsFor(SelectSeq(ObjectPaths(TheDoc.members, <<>>),
                           LAMBDA path : Req.is_root => Len(path) >= 2))

\* C24: one item per scalar member outside arrays, in the order of the text,
\* with the key "<namespace>:<dot-joined path>" and the position of the
\* member's own key; for is_root the first segment is the namespace and a
\* member is dropped when its path has one segment or when the rest of its
\* path joins to the empty text; a range keeps the items whose key line it
\* contains
C24_LeafItems ==
    (IsSome(response) /\ Served) =>
        ItemsFor(SelectSeq(ObjectPaths(TheDoc.members, <<>>),
                           LAMBDA path : Req.is_root =>
                               (Len(path) >= 2 /\ Join(Tail(path), <<".">>) # <<>>)))

\* the document with objects inside arrays, on one line, read as a root file
\* for a range of lines: the members of the objects inside the array give no
\* item, the member c of m gives the item m:c
C24_Witness ==
    /\ IsSome(response)
    /\ Served
    /\ IsSome(Req.range)
    /\ Req.is_root
    /\ \E i \in 1..(Len(Req.source) - 1) : Req.source[i] = "[" /\ Req.source[i + 1] = "{"
    /\ Len(Items) = 1
    /\ Items[1].key = <<"m", ":", "c">>
    /\ Items[1].lnum = 0

\* ---------------------------------------------------------------------------
\* The resource index (resource/index.rs, resource/io.rs, util::flatten_table)
\* over a small tree of locale files.  A path is the sequence of its components,
\* a component and every key or value is a sequence of characters; a file of the
\* tree is absent, a directory, or a text that is either no JSON or a JSON value.

MaxEdits == 1   \* edits of the files after the first request

EN == <<"e", "n">>
C_JSON == <<"c", ".", "j", "s", "o", "n">>
EN_JSON == <<"e", "n", ".", "j", "s", "o", "n">>
JSON_EXT == <<"j", "s", "o", "n">>

LocalesRoot == [kind |-> "i18next", path |-> <<(<<"l">>)>>]
MessagesRoot == [kind |-> "next-intl", path |-> <<(<<"m">>)>>]

NsFile30 == <<(<<"l">>), EN, C_JSON>>             \* l/en/c.json
RootFile40 == <<(<<"m">>), EN_JSON>>              \* m/en.json
NsFile50 == <<(<<"m">>), EN, C_JSON>>             \* m/en/c.json
DeepFile == <<(<<"l">>), EN, <<"s">>, C_JSON>>     \* l/en/s/c.json
TextFile == <<(<<"l">>), EN, <<"c", ".", "t", "x", "t">>>>   \* l/en/c.txt
Outside == <<(<<"x">>), EN, C_JSON>>              \* x/en/c.json

FilePaths == {NsFile30, RootFile40, NsFile50, DeepFile}

Absent == [kind |-> "absent", value |-> None, mtime |-> 0]
Directory(mtime) == [kind |-> "dir", value |-> None, mtime |-> mtime]
\* a regular file: value is None when the text is no JSON
File(value, mtime) == [kind |-> "file", value |-> value, mtime |-> mtime]

EmptyTable == JObj(<<>>)                                                     \* {}
KeyTable(v) == JObj(<<(<<(<<"k">>), JStr(<<v>>)>>)>>)                       \* {"k":"<v>"}
RootTable(v) == JObj(<<(<<(<<"c">>), KeyTable(v)>>)>>)                      \* {"c":{"k":"<v>"}}

\* what a path can hold after an edit; l/en/s/c.json is never edited
Contents(path, mtime) ==
    CASE path = NsFile30 ->
            {Absent, Directory(mtime), File(None, mtime), File(Some(EmptyTable), mtime),
             File(Some(KeyTable("a")), mtime), File(Some(KeyTable("b")), mtime)}
      [] path = RootFile40 -> {Absent, File(Some(RootTable("r")), mtime)}
      [] path = NsFile50 ->
            {Absent, File(Some(EmptyTable), mtime), File(Some(KeyTable("a")), mtime)}
      [] OTHER -> {File(Some(KeyTable("d")), mtime)}

\* Path::is_file, Path::is_dir and Path::exists: a directory is an entry of
\* that kind or a proper prefix of an entry that exists
is_file(fs, path) == path \in DOMAIN fs /\ fs[path].kind = "file"
is_dir(fs, path) ==
    \/ path \in DOMAIN fs /\ fs[path].kind = "dir"
    \/ \E p \in DOMAIN fs : /\ fs[p].kind # "absent"
                            /\ Len(p) > Len(path)
                            /\ SubSeq(p, 1, Len(path)) = path
exists(fs, path) == is_file(fs, path) \/ is_dir(fs, path)

\* the position of the dot that starts the extension of a file name, 0 if none
ExtensionDot(name) ==
    LET dots == {i \in 2..Len(name) : name[i] = "."}
    IN IF dots = {} THEN 0 ELSE CHOOSE i \in dots : \A j \in dots : j <= i

\* Path::extension and Path::file_stem of the last component
extension(path) ==
    LET name == path[Len(path)]
    IN IF ExtensionDot(name) = 0 THEN None
       ELSE Some(SubSeq(name, ExtensionDot(name) + 1, Len(name)))
file_stem(path) ==
    LET name == path[Len(path)]
    IN IF ExtensionDot(name) = 0 THEN name ELSE SubSeq(name, 1, ExtensionDot(name) - 1)

\* Path::strip_prefix: the components after root, None if root is no prefix
strip_prefix(path, root) ==
    IF Len(root) <= Len(path) /\ SubSeq(path, 1, Len(root)) = root
    THEN Some(SubSeq(path, Len(root) + 1, Len(path)))
    ELSE None

RECURSIVE Listing(_)
Listing(paths) ==
    IF paths = {} THEN <<>>
    ELSE LET p == CHOOSE q \in paths : TRUE IN <<p>> \o Listing(paths \ {p})

Backwards(s) == [i \in 1..Len(s) |-> s[Len(s) + 1 - i]]

\* std::fs::read_dir: the entries of a directory, in one of the orders the file
\* system may list them, None when dir is no directory
read_dir(fs, dir, rev) ==
    IF ~is_dir(fs, dir) THEN None
    ELSE LET entries == {SubSeq(p, 1, Len(dir) + 1) :
                            p \in {q \in DOMAIN fs : /\ fs[q].kind # "absent"
                                                     /\ Len(q) > Len(dir)
                                                     /\ SubSeq(q, 1, Len(dir)) = dir}}
         IN Some(IF rev THEN Backwards(Listing(entries)) ELSE Listing(entries))

\* io::read_json_file
read_json_file(fs, path) ==
    IF is_file(fs, path) /\ IsSome(fs[path].value)
    THEN [ok |-> TRUE, value |-> Unwrap(fs[path].value)]
    ELSE [ok |-> FALSE, value |-> EmptyTable]

\* io::file_mtime
file_mtime(fs, path) ==
    IF exists(fs, path) THEN Some(IF path \in DOMAIN fs THEN fs[path].mtime ELSE 0) ELSE None

RECURSIVE flatten_recursive(_, _, _)
RECURSIVE FlattenMembers(_, _, _)
\* util::flatten_recursive: a string gives its text, any other value its JSON text
flatten_recursive(value, prefix, result) ==
    CASE value.kind = "object" -> FlattenMembers(value.members, prefix, result)
      [] value.kind = "scalar" /\ Len(value.text) >= 2 /\ value.text[1] = "\"" ->
            (prefix :> SubSeq(value.text, 2, Len(value.text) - 1)) @@ result
      [] OTHER -> (prefix :> Render(value, <<>>)) @@ result

FlattenMembers(members, prefix, result) ==
    IF members = <<>> THEN result
    ELSE LET key == Head(members)[1]
             new_prefix == IF prefix = <<>> THEN key ELSE prefix \o <<".">> \o key
         IN FlattenMembers(Tail(members), prefix,
                           flatten_recursive(Head(members)[2], new_prefix, result))

flatten_table(value, prefix) == flatten_recursive(value, prefix, <<>>)

index_ResourceItem(value, file, priority) ==
    [value |-> Some(value), file |-> Some(file), priority |-> priority]

\* index::insert_items: the keys of flat are distinct, so each is decided alone
insert_items(index, lang, namespace, flat, file_path, priority) ==
    LET lang_map == IF lang \in DOMAIN index THEN index[lang] ELSE <<>>
        canonical(key) == namespace \o <<":">> \o key
        new_keys == {canonical(key) : key \in DOMAIN flat}
        value_of(ck) == flat[CHOOSE key \in DOMAIN flat : canonical(key) = ck]
    IN [l \in DOMAIN index \cup {lang} |->
          IF l # lang THEN index[l]
          ELSE [ck \in DOMAIN lang_map \cup new_keys |->
                  IF ck \in new_keys /\ (ck \notin DOMAIN lang_map
                                         \/ priority < lang_map[ck].priority)
                  THEN index_ResourceItem(value_of(ck), file_path, priority)
                  ELSE lang_map[ck]]]

IndexError(lang, file, error) == [lang |-> lang, file |-> file, error |-> error]

\* languages and namespaces are kept as the sets the sorted lists are made of
index_IndexResult(index, files, languages, errors, namespaces) ==
    [index |-> index, files |-> files, languages |-> languages, errors |-> errors,
     namespaces |-> namespaces]

RECURSIVE LangFiles(_, _, _, _, _)
\* the loop over the files of a language directory (index.rs 144-176, 214-245);
\* st also carries has_json_file
LangFiles(fs, entries, lang, priority, st) ==
    IF entries = <<>> THEN st
    ELSE LET file_path == Head(entries) IN
         IF extension(file_path) # Some(JSON_EXT)
         THEN LangFiles(fs, Tail(entries), lang, priority, st)
         ELSE LET ns == file_stem(file_path)
                  mtime == file_mtime(fs, file_path)
                  read == read_json_file(fs, file_path)
                  st1 == [st EXCEPT !.has_json_file = TRUE,
                                    !.namespaces = @ \cup {ns},
                                    !.files = IF IsSome(mtime)
                                              THEN (file_path :> Unwrap(mtime)) @@ @
                                              ELSE @]
                  st2 == IF read.ok
                         THEN [st1 EXCEPT !.index =
                                  insert_items(@, lang, ns, flatten_table(read.value, <<>>),
                                               file_path, priority)]
                         ELSE [st1 EXCEPT !.errors =
                                  Append(@, IndexError(lang, file_path, "read"))]
              IN LangFiles(fs, Tail(entries), lang, priority, st2)

\* a subdirectory of a root is a language, the files inside are namespaces
LangDir(fs, path, priority, st, rev) ==
    LET lang == path[Len(path)]
        lang_entries == read_dir(fs, path, rev)
    IN IF ~IsSome(lang_entries) THEN st
       ELSE LET out == LangFiles(fs, Unwrap(lang_entries), lang, priority,
                                 [st EXCEPT !.has_json_file = FALSE])
            IN IF out.has_json_file
               THEN [out EXCEPT !.languages = @ \cup {lang}]
               ELSE out

RECURSIVE Namespaces40(_, _, _, _)
\* the top-level keys of a root-level file are namespaces (index.rs 267-271)
Namespaces40(members, lang, file_str, st) ==
    IF members = <<>> THEN st
    ELSE LET ns == Head(members)[1]
             flat == flatten_table(Head(members)[2], <<>>)
         IN Namespaces40(Tail(members), lang, file_str,
                         [st EXCEPT !.namespaces = @ \cup {ns},
                                    !.index = insert_items(@, lang, ns, flat, file_str, 40)])

\* a root-level {lang}.json of a next-intl root
RootFile(fs, path, st) ==
    LET lang == file_stem(path)
        mtime == file_mtime(fs, path)
        read == read_json_file(fs, path)
        st1 == [st EXCEPT !.languages = @ \cup {lang},
                          !.files = IF IsSome(mtime) THEN (path :> Unwrap(mtime)) @@ @ ELSE @]
    IN IF read.ok /\ read.value.kind = "object"
       THEN Namespaces40(read.value.members, lang, path, st1)
       ELSE [st1 EXCEPT !.errors =
                Append(@, IndexError(lang, path, IF read.ok THEN "object" ELSE "read"))]

RECURSIVE I18nextEntries(_, _, _, _)
I18nextEntries(fs, entries, st, rev) ==
    IF entries = <<>> THEN st
    ELSE I18nextEntries(fs, Tail(entries),
                        IF is_dir(fs, Head(entries))
                        THEN LangDir(fs, Head(entries), 30, st, rev) ELSE st,
                        rev)

\* index::process_i18next
process_i18next(fs, root, st, rev) ==
    LET entries == read_dir(fs, root, rev)
    IN IF IsSome(entries) THEN I18nextEntries(fs, Unwrap(entries), st, rev) ELSE st

RECURSIVE NextIntlEntries(_, _, _, _)
NextIntlEntries(fs, entries, st, rev) ==
    IF entries = <<>> THEN st
    ELSE NextIntlEntries(fs, Tail(entries),
                         IF is_dir(fs, Head(entries))
                         THEN LangDir(fs, Head(entries), 50, st, rev)
                         ELSE IF extension(Head(entries)) = Some(JSON_EXT)
                              THEN RootFile(fs, Head(entries), st)
                              ELSE st,
                         rev)

\* index::process_next_intl
process_next_intl(fs, root, st, rev) ==
    LET entries == read_dir(fs, root, rev)
    IN IF IsSome(entries) THEN NextIntlEntries(fs, Unwrap(entries), st, rev) ELSE st

RECURSIVE BuildRoots(_, _, _, _)
BuildRoots(fs, roots, st, rev) ==
    IF roots = <<>> THEN st
    ELSE BuildRoots(fs, Tail(roots),
                    CASE Head(roots).kind = "i18next" ->
                             process_i18next(fs, Head(roots).path, st, rev)
                      [] Head(roots).kind = "next-intl" ->
                             process_next_intl(fs, Head(roots).path, st, rev)
                      [] OTHER -> st,
                    rev)

\* the IndexResult index::build_index computes from the files
build_result(fs, roots, rev) ==
    LET st == BuildRoots(fs, roots,
                         [index |-> <<>>, files |-> <<>>, languages |-> {},
                          namespaces |-> {}, errors |-> <<>>, has_json_file |-> FALSE],
                         rev)
    IN index_IndexResult(st.index, st.files, st.languages, st.errors, st.namespaces)

RECURSIVE to_string(_)
\* serde_json::to_string of the roots, token by token
to_string(roots) ==
    IF roots = <<>> THEN <<>>
    ELSE <<"{\"kind\":", Head(roots).kind, ",\"path\":", Head(roots).path, "}">>
         \o to_string(Tail(roots))

RootLists == {<<LocalesRoot, MessagesRoot>>, <<MessagesRoot>>}

\* serde_json::from_str of a cache key: the roots it was written from
from_str(cache_key) ==
    IF \E roots \in RootLists : to_string(roots) = cache_key
    THEN Some(CHOOSE roots \in RootLists : to_string(roots) = cache_key)
    ELSE None

\* IndexCache::get and IndexCache::set
IndexCache_get(cache, key) == IF key \in DOMAIN cache THEN Some(cache[key]) ELSE None
IndexCache_set(cache, key, value) == [k \in DOMAIN cache \cup {key} |->
                                        IF k = key THEN value ELSE cache[k]]

\* index::build_index: the result, cached under the key of the roots
build_index(fs, cache, params, rev) ==
    LET cache_key == to_string(params.roots)
        result == build_result(fs, params.roots, rev)
    IN [cache |-> IndexCache_set(cache, cache_key, result),
        response |-> [success |-> TRUE, needs_rebuild |-> FALSE, result |-> Some(result),
                      cache_key |-> Some(cache_key)]]

\* index::remove_entries_by_file
remove_entries_by_file(index, file_path) ==
    LET kept(lang) == {ck \in DOMAIN index[lang] : index[lang][ck].file # Some(file_path)}
    IN [lang \in {l \in DOMAIN index : kept(l) # {}} |->
          [ck \in kept(lang) |-> index[lang][ck]]]

\* the first colon of a key, 0 if none
Colon(key) ==
    LET at == {i \in 1..Len(key) : key[i] = ":"}
    IN IF at = {} THEN 0 ELSE CHOOSE i \in at : \A j \in at : i <= j

\* index::refresh_languages_and_namespaces
refresh_languages_and_namespaces(result) ==
    LET index == [lang \in {l \in DOMAIN result.index : DOMAIN result.index[l] # {}} |->
                     result.index[lang]]
    IN [result EXCEPT
          !.index = index,
          !.languages = DOMAIN index,
          !.namespaces = {SubSeq(ck, 1, Colon(ck) - 1) :
                            ck \in {k \in UNION {DOMAIN index[l] : l \in DOMAIN index} :
                                       Colon(k) # 0}}]

NeedsRebuild == [success |-> FALSE, needs_rebuild |-> TRUE, result |-> None, cache_key |-> None]

\* the root a path lies under and its components below that root (index.rs 418-434)
MatchedRoot(path, roots) ==
    LET hits == {i \in 1..Len(roots) : /\ IsSome(strip_prefix(path, roots[i].path))
                                       /\ Unwrap(strip_prefix(path, roots[i].path)) # <<>>}
    IN IF hits = {} THEN None
       ELSE LET i == CHOOSE h \in hits : \A j \in hits : h <= j
            IN Some([kind |-> roots[i].kind,
                     components |-> Unwrap(strip_prefix(path, roots[i].path))])

RECURSIVE ApplyPaths(_, _, _, _)
\* the loop of index::apply_changes over the paths: ok is FALSE at the first
\* path that needs a rebuild, updated is the copy as it is at that moment
ApplyPaths(fs, roots, paths, updated) ==
    IF paths = <<>> THEN [ok |-> TRUE, updated |-> updated]
    ELSE LET path == Head(paths)
             matched == MatchedRoot(path, roots)
             stop == [ok |-> FALSE, updated |-> updated]
         IN
         IF extension(path) # Some(JSON_EXT) THEN stop
         ELSE IF exists(fs, path) /\ ~is_file(fs, path) THEN stop
         ELSE IF ~IsSome(matched) THEN stop
         ELSE IF ~is_file(fs, path)
                 \/ (Unwrap(matched).kind = "next-intl" /\ Len(Unwrap(matched).components) = 1)
              THEN stop
         ELSE
         LET root_kind == Unwrap(matched).kind
             components == Unwrap(matched).components
             removed == [updated EXCEPT
                           !.index = remove_entries_by_file(@, path),
                           !.files = [f \in DOMAIN @ \ {path} |-> @[f]],
                           !.errors = SelectSeq(@, LAMBDA entry : entry.file # path)]
             read == read_json_file(fs, path)
             mtime == file_mtime(fs, path)
             timed == [removed EXCEPT !.files = IF IsSome(mtime)
                                                THEN (path :> Unwrap(mtime)) @@ @ ELSE @]
             lang == components[1]
             ns == file_stem(<<components[2]>>)
             flat == flatten_table(read.value, <<>>)
         IN
         IF ~read.ok THEN [ok |-> FALSE, updated |-> removed]
         ELSE CASE root_kind = "i18next" /\ Len(components) = 2 ->
                     ApplyPaths(fs, roots, Tail(paths),
                                [timed EXCEPT !.index = insert_items(@, lang, ns, flat, path, 30)])
                [] root_kind = "next-intl" /\ Len(components) = 2 ->
                     ApplyPaths(fs, roots, Tail(paths),
                                [timed EXCEPT !.index = insert_items(@, lang, ns, flat, path, 50)])
                [] root_kind = "next-intl" /\ Len(components) = 1 ->
                     ApplyPaths(fs, roots, Tail(paths),
                                [timed EXCEPT !.index =
                                    IF read.value.kind = "object"
                                    THEN Namespaces40(read.value.members,
                                                      file_stem(<<components[1]>>), path,
                                                      timed).index
                                    ELSE @])
                [] OTHER -> [ok |-> FALSE, updated |-> timed]

\* the mutant: the entry of the cache is updated in place, path by path
apply_changes_in_place(fs, cache, params) ==
    LET cached == IndexCache_get(cache, params.cache_key)
        roots == from_str(params.cache_key)
    IN IF ~IsSome(cached) \/ ~IsSome(roots)
       THEN [cache |-> cache, response |-> NeedsRebuild]
       ELSE LET out == ApplyPaths(fs, Unwrap(roots), params.paths, Unwrap(cached))
                updated == refresh_languages_and_namespaces(out.updated)
            IN IF out.ok
               THEN [cache |-> IndexCache_set(cache, params.cache_key, updated),
                     response |-> [success |-> TRUE, needs_rebuild |-> FALSE,
                                   result |-> Some(updated), cache_key |-> None]]
               ELSE [cache |-> IndexCache_set(cache, params.cache_key, out.updated),
                     response |-> NeedsRebuild]

\* index::apply_changes: the paths are applied to a copy of the cached result,
\* which replaces the entry of the cache only after the last path
apply_changes(fs, cache, params) ==
    LET cached == IndexCache_get(cache, params.cache_key)
        roots == from_str(params.cache_key)
    IN IF ~IsSome(cached) \/ ~IsSome(roots)
       THEN [cache |-> cache, response |-> NeedsRebuild]
       ELSE LET out == ApplyPaths(fs, Unwrap(roots), params.paths, Unwrap(cached))
                updated == refresh_languages_and_namespaces(out.updated)
            IN IF out.ok
               THEN [cache |-> IndexCache_set(cache, params.cache_key, updated),
                     response |-> [success |-> TRUE, needs_rebuild |-> FALSE,
                                   result |-> Some(updated), cache_key |-> None]]
               ELSE [cache |-> cache, response |-> NeedsRebuild]

\* the file systems the first request may find: l/en/c.json and l/en/s/c.json
\* hold a table, each file of the next-intl root is absent or holds a table
InitialFileSystems ==
    {fs \in [FilePaths -> UNION {Contents(p, 0) : p \in FilePaths}] :
        /\ fs[NsFile30] = File(Some(KeyTable("a")), 0)
        /\ fs[DeepFile] = File(Some(KeyTable("d")), 0)
        /\ fs[RootFile40] \in {Absent, File(Some(RootTable("r")), 0)}
        /\ fs[NsFile50] \in {Absent, File(Some(KeyTable("a")), 0)}}

AllPaths == FilePaths \cup {TextFile, Outside}

\* the path lists of resource/applyChanges: none, one path, l/en/c.json and another
PathLists ==
    {<<>>} \cup {<<p>> : p \in AllPaths} \cup {<<NsFile30, p>> : p \in {NsFile50, TextFile}}

BuildRequests == {[roots |-> <<LocalesRoot, MessagesRoot>>]}

\* the key of the roots that are built with any of the path lists, and a key
\* that was never built
ApplyRequests ==
    {[cache_key |-> to_string(<<LocalesRoot, MessagesRoot>>), paths |-> paths] :
        paths \in PathLists}
    \cup {[cache_key |-> to_string(<<MessagesRoot>>), paths |-> <<NsFile50>>]}

InitIndex ==
    /\ family = "index"
    /\ module = <<>>
    /\ open = FALSE
    /\ cur = 0
    /\ request = None
    /\ tables = None
    /\ response = None
    /\ token = FALSE
    /\ \E fs \in InitialFileSystems :
          run = Some([fs |-> fs, cache |-> <<>>, now |-> 0, edited |-> <<>>])

\* a file is written, replaced by a directory or deleted; edited remembers, for
\* each cached key, the paths changed since the entry was built or brought up to
\* date, and "calls" once a call named a path that had not changed
EditFile ==
    /\ IsSome(run)
    /\ R.now < MaxEdits
    /\ \E path \in FilePaths \ {DeepFile} :
       \E content \in Contents(path, R.now + 1) :
          /\ [content EXCEPT !.mtime = 0] # [R.fs[path] EXCEPT !.mtime = 0]
          /\ run' = Some([R EXCEPT !.fs[path] = content,
                                   !.now = @ + 1,
                                   !.edited = [k \in DOMAIN @ |->
                                                 [@[k] EXCEPT !.paths = @ \cup {path}]]])
    /\ UNCHANGED <<family, module, open, cur, request, tables, response, token>>

\* the client calls resource/buildIndex
BuildIndex ==
    /\ IsSome(run)
    /\ \E params \in BuildRequests, rev \in BOOLEAN :
          LET out == build_index(R.fs, R.cache, params, rev)
              key == to_string(params.roots)
          IN /\ request' = Some([method |-> "resource/buildIndex", params |-> params])
             /\ response' = Some(out.response)
             /\ run' = Some([R EXCEPT
                               !.cache = out.cache,
                               !.edited = [k \in DOMAIN @ \cup {key} |->
                                             IF k = key THEN [paths |-> {}, only |-> TRUE]
                                             ELSE @[k]]])
    /\ UNCHANGED <<family, module, open, cur, tables, token>>

\* the client calls resource/applyChanges
ApplyChanges ==
    /\ IsSome(run)
    /\ \E params \in ApplyRequests :
          LET out == apply_changes(R.fs, R.cache, params)
              named == {params.paths[i] : i \in 1..Len(params.paths)}
          IN /\ request' = Some([method |-> "resource/applyChanges", params |-> params])
             /\ response' = Some(out.response)
             /\ run' = Some([R EXCEPT
                               !.cache = out.cache,
                               !.edited = IF out.response.success
                                          THEN [@ EXCEPT ![params.cache_key] =
                                                  [paths |-> @.paths \ named,
                                                   only |-> @.only /\ named \subseteq @.paths]]
                                          ELSE @])
    /\ UNCHANGED <<family, module, open, cur, tables, token>>

NextIndex == EditFile \/ BuildIndex \/ ApplyChanges

SpecIndex == InitIndex /\ [][NextIndex]_vars

Cache == R.cache
CalledApply == IsSome(request) /\ Req.method = "resource/applyChanges"

\* C27: a call of resource/applyChanges that answers success = false leaves the
\* cache, and so the entry under its key, exactly as it was before the call
C27_FailureLeavesCache ==
    [][(/\ IsSome(request') /\ Unwrap(request').method = "resource/applyChanges"
        /\ ~Unwrap(response').success)
       => Unwrap(run').cache = Cache]_vars

\* the call named l/en/c.json, whose changed table alone would have replaced the
\* entry, and then a path that needs a rebuild: the entry is the one of before
C27_Witness ==
    /\ CalledApply
    /\ ~Unwrap(response).success
    /\ Len(Req.params.paths) = 2
    /\ Req.params.cache_key \in DOMAIN Cache
    /\ LET alone == apply_changes(R.fs, Cache, [Req.params EXCEPT !.paths = <<@[1]>>])
       IN /\ alone.response.success
          /\ alone.cache # Cache

\* what the claim compares: the entries of the index, languages and namespaces
Compared(result) ==
    [entries |-> UNION {{<<lang, ck, result.index[lang][ck]>> : ck \in DOMAIN result.index[lang]} :
                           lang \in DOMAIN result.index},
     languages |-> result.languages,
     namespaces |-> result.namespaces]

FreshBuild(key) == build_result(R.fs, Unwrap(from_str(key)), FALSE)

\* C28: an entry of the cache that was built and then brought up to date by
\* successful resource/applyChanges calls naming the files edited since equals,
\* in index entries, languages and namespaces, a fresh build over the files
C28_CacheEqualsFreshBuild ==
    IsSome(run) =>
       \A key \in DOMAIN Cache :
          (R.edited[key].paths = {} /\ R.edited[key].only)
             => Compared(Cache[key]) = Compared(FreshBuild(key))

====
